---- MODULE Spec2Model ----
(***************************************************************************)
(* Cluster resource availability resolver of iml-api (graphql/mod.rs).     *)
(*                                                                         *)
(* The resolver is a set of read-only query handlers over the relational   *)
(* store.  The state is the content of the tables the handlers read, plus  *)
(* the outcome of the handler that ran last (its arguments, the statements *)
(* it issued against the store, and what it returned).                     *)
(*                                                                         *)
(* Text that the code orders, concatenates or searches (filesystem names,  *)
(* target names, nids, error messages, the mount source) is a sequence of  *)
(* code points; text that is only compared for equality (uuids, resource   *)
(* names, mount paths, node names, states) is an opaque string.            *)
(***************************************************************************)
EXTENDS Integers, Sequences, FiniteSets, TLC

VARIABLES
    target,                        \* table target
    corosync_resource,             \* table corosync_resource
    corosync_resource_managed_host,\* table corosync_resource_managed_host
    corosync_resource_bans,        \* table corosync_resource_bans
    corosync_node_managed_host,    \* table corosync_node_managed_host
    lnet,                          \* table lnet
    nid,                           \* table nid
    chroma_core_managedfilesystem, \* table chroma_core_managedfilesystem
    chroma_core_managedhost,       \* table read by fqdn_by_host_id
    chroma_core_command,           \* table chroma_core_command
    chroma_core_command_jobs,      \* table chroma_core_command_jobs
    op,                            \* the handler that ran last ("none" at start)
    args,                          \* its arguments
    queries,                       \* the statements it issued, in order
    target_resources,              \* the TargetResource list it got from get_fs_target_resources
    idsets,                        \* get_fs_cluster_hosts: the host-id groups before name resolution
    ret,                           \* what it returned
    failure,                       \* which of its statements the store failed (0: none)
    pc,                            \* where an invocation that runs in steps stands ("idle": none runs)
    lookups,                       \* get_fs_cluster_hosts: the fqdn_by_host_id futures of each group
    finished,                      \* the places of the futures of each group, in the order they completed
    joined,                        \* the Vec<String> of each group, once its join_all has completed
    banned,                        \* get_fs_target_resources: the banned_resources it holds
    stream,                        \* the rows of its SELECT that the stream has yet to yield
    collected,                     \* the TargetResources made of the rows yielded so far
    ban_log,                       \* what get_banned_targets would have returned, at its call and
                                   \* after each ban command since, with the number collected then
    chroma_core_fidtaskqueue,      \* table chroma_core_fidtaskqueue, in the order of its ids
    chroma_core_task,              \* table chroma_core_task: fids_total of each task id
    supplied,                      \* the (task_id, fids, failed statement) of every insert_fidlist call
    model,                         \* create-policy form: its Model
    orders,                        \* messages queued with orders.send_msg, not yet handled
    requests,                      \* create requests performed and not yet answered
    last                           \* the message update handled last ("none" at start)

store == << target, corosync_resource, corosync_resource_managed_host,
            corosync_resource_bans, corosync_node_managed_host, lnet, nid,
            chroma_core_managedfilesystem, chroma_core_managedhost,
            chroma_core_command, chroma_core_command_jobs >>

vars == << target, corosync_resource, corosync_resource_managed_host,
           corosync_resource_bans, corosync_node_managed_host, lnet, nid,
           chroma_core_managedfilesystem, chroma_core_managedhost,
           chroma_core_command, chroma_core_command_jobs,
           op, args, queries, target_resources, idsets, ret, failure,
           pc, lookups, finished, joined, banned, stream, collected, ban_log,
           chroma_core_fidtaskqueue, chroma_core_task, supplied,
           model, orders, requests, last >>

\* What an invocation that runs in steps holds between its steps.
join == << lookups, finished, joined >>
held == << banned, stream, collected, ban_log >>
steps == << pc, join, held >>
\* The tables insert_fidlist writes, and the calls made of it.
fidlist == << chroma_core_fidtaskqueue, chroma_core_task, supplied >>
\* What the handlers of the queries have no access to.
elsewhere == << fidlist, model, orders, requests, last >>

-----------------------------------------------------------------------------
(* Bounds of the model.                                                    *)

\* Host ids are 1..MaxHost.
MaxHost == 3
\* At most MaxBans rows in corosync_resource_bans.
MaxBans == 2

Hosts == 1..MaxHost
Clusters == {1, 2}

-----------------------------------------------------------------------------
(* Values.                                                                 *)

\* SQL NULL / Rust None of a nullable text column.
NULL == "<null>"
\* Option<T> of a handler argument.
None == << >>
Some(v) == <<v>>

\* "fsA", "fsB", "fsC": the filesystems of the store; "zz": a name the store does not hold.
FsA == <<102, 115, 65>>
FsB == <<102, 115, 66>>
FsC == <<102, 115, 67>>
FsZ == <<122, 122>>
\* "MGS", "MDT0", "OST0": target names.
MGS == <<77, 71, 83>>
MDT0 == <<77, 68, 84, 48>>
OST0 == <<79, 83, 84, 48>>
\* nids "2", "3", "10": "10" sorts before "2" as text.
Nid2 == <<50>>
Nid3 == <<51>>
Nid10 == <<49, 48>>

Ok(v) == [ok |-> TRUE, val |-> v]
Err(e) == [ok |-> FALSE, err |-> e]

\* All orders in which the rows of a set can be returned.
RECURSIVE Perms(_)
Perms(S) ==
    IF S = {} THEN { << >> }
    ELSE UNION { { <<x>> \o p : p \in Perms(S \ {x}) } : x \in S }

\* The elements of a sequence.
Range(s) == { s[i] : i \in 1..Len(s) }

\* s occurs in t as a contiguous run (str::contains).
Contains(t, s) ==
    \E i \in 0..(Len(t) - Len(s)) : \A k \in 1..Len(s) : t[i + k] = s[k]

\* Text order: code point by code point, a proper prefix first.
TextLess(a, b) ==
    \E i \in 1..(Len(a) + 1) :
        /\ \A k \in 1..(i - 1) : k <= Len(b) /\ a[k] = b[k]
        /\ \/ i = Len(a) + 1 /\ Len(b) > Len(a)
           \/ i <= Len(a) /\ i <= Len(b) /\ a[i] < b[i]

-----------------------------------------------------------------------------
(* The store.  The tables are written by other services (the corosync      *)
(* monitor, the device scanner, the ban commands); the handlers only read  *)
(* them.  Init draws their content from the families below.                *)

\* Corosync node name of host h.
NodeName(h) == <<"node", h>>

\* Hosts 1 and 2 form HA cluster 1, the remaining hosts HA cluster 2.
ClusterOf(h) == IF h \in {1, 2} THEN 1 ELSE 2
HostsOf(c) == { h \in Hosts : ClusterOf(h) = c }

TargetRow(id, uuid, name, mount_path, filesystems, host_ids, state) ==
    [id |-> id, uuid |-> uuid, name |-> name, mount_path |-> mount_path,
     filesystems |-> filesystems, host_ids |-> host_ids, state |-> state]

\* The MGS target: on its HA pair, or claiming every host.
MgsTargets ==
    { TargetRow(1, "u1", MGS, "/mgs", {FsA, FsB}, hs, "mounted") :
        hs \in {HostsOf(1), Hosts} }
\* The MDT target: attached to fsA, or to no filesystem yet; on the hosts of
\* the pair, or on host 2 and a host (MaxHost + 1) that left the cluster:
\* it has no node and no host record any more.
MdtTargets ==
    { TargetRow(2, "u2", MDT0, "/mdt", {FsA}, HostsOf(1), "mounted"),
      TargetRow(2, "u2", MDT0, "/mdt", {}, HostsOf(1), "mounted"),
      TargetRow(2, "u2", MDT0, "/mdt", {FsA}, {2, MaxHost + 1}, "unmounted") }
\* The third target: an OST of fsA on cluster 2, an OST that shares the MDT's
\* mount path, or the MGS of fsB on cluster 2.
ThirdTargets ==
    { TargetRow(3, "u3", OST0, "/ost", {FsA}, HostsOf(2), "mounted"),
      TargetRow(3, "u3", OST0, "/mdt", {FsA}, HostsOf(1), "unmounted"),
      TargetRow(3, "u3", MGS, "/ost", {FsB}, HostsOf(2) \cup {1}, "mounted") }
TargetTables ==
    { {t1, t2, t3} : t1 \in MgsTargets, t2 \in MdtTargets, t3 \in ThirdTargets }

ResourceRow(name, cluster_id, mount_point) ==
    [name |-> name, cluster_id |-> cluster_id, mount_point |-> mount_point]

\* The resource of cluster 2 that mounts /ost has a name of its own, or the
\* name the MGS resource has in cluster 1.
ResourceTables ==
    { { ResourceRow("res_mgs", 1, "/mgs"), ResourceRow("res_mdt", 1, "/mdt"),
        ResourceRow("res_vip", 1, NULL), ResourceRow(ost, 2, "/ost") } :
        ost \in {"res_ost", "res_mgs"} }

\* A store in which the resource of cluster 2 that mounts /ost has the name
\* that a resource without a mount point has in cluster 1, and the target at
\* /ost also lists host 1.  The MGS and MDT targets still list the departed
\* host, which the MGS resource was never allowed on.
SharedNameTargets ==
    { TargetRow(1, "u1", MGS, "/mgs", {FsA, FsB}, HostsOf(1) \cup {MaxHost + 1}, "mounted"),
      TargetRow(2, "u2", MDT0, "/mdt", {FsA}, {2, MaxHost + 1}, "unmounted"),
      TargetRow(3, "u3", MGS, "/ost", {FsB}, HostsOf(2) \cup {1}, "mounted") }
SharedNameResources ==
    { ResourceRow("res_mgs", 1, "/mgs"), ResourceRow("res_mdt", 1, "/mdt"),
      ResourceRow("res_vip", 1, NULL), ResourceRow("res_vip", 2, "/ost") }

\* The targets and the resources of a store.
Topologies ==
    (TargetTables \X ResourceTables) \cup { <<SharedNameTargets, SharedNameResources>> }

\* Every host of a cluster can run every resource of the cluster; the row that
\* let the departed host run the MDT resource is still there.
ManagedHostRows(resources) ==
    UNION { { [corosync_resource_id |-> r.name, cluster_id |-> r.cluster_id,
               host_id |-> h] : h \in HostsOf(r.cluster_id) } : r \in resources }
    \cup { [corosync_resource_id |-> "res_mdt", cluster_id |-> 1, host_id |-> MaxHost + 1] }

\* Every host is a node of its cluster.
NodeRows ==
    { [name |-> NodeName(h), cluster_id |-> ClusterOf(h), host_id |-> h] : h \in Hosts }

BanRow(id, cluster_id, resource, node) ==
    [id |-> id, name |-> <<"cli-ban", resource, node>>, cluster_id |-> cluster_id,
     resource |-> resource, node |-> node, weight |-> -1000000, master_only |-> FALSE]

\* The bans an administrator can have placed: the MGS resource on either node
\* of cluster 1, the MDT resource and the resource without a mount point on
\* node 1, a resource the store does not hold, and the resource of cluster 2
\* on node 3.
BanUniverse(resources) ==
    { BanRow(1, 1, "res_mgs", NodeName(1)), BanRow(2, 1, "res_mgs", NodeName(2)),
      BanRow(3, 1, "res_mdt", NodeName(1)), BanRow(4, 1, "res_vip", NodeName(1)),
      BanRow(5, 1, "res_gone", NodeName(1)) }
    \cup { BanRow(6, 2, r.name, NodeName(3)) : r \in { x \in resources : x.cluster_id = 2 } }
BanTables(resources) ==
    { B \in SUBSET BanUniverse(resources) : Cardinality(B) <= MaxBans }

\* Host 1 has the nids "2" and "10", host 2 the nid "3", host h > 2 the nid "0h".
HostNids(h) ==
    CASE h = 1 -> {Nid2, Nid10}
      [] h = 2 -> {Nid3}
      [] OTHER -> {<<48, 48 + h>>}
NidRows ==
    UNION { { [id |-> 10 * h + Len(n), host_id |-> h, nid |-> n] : n \in HostNids(h) } :
            h \in Hosts }
LnetRows ==
    { [host_id |-> h, nids |-> { n.id : n \in { x \in NidRows : x.host_id = h } }] :
        h \in Hosts }

\* fsA and fsB are live filesystems, fsC is a deleted one.
FilesystemRows ==
    { [id |-> 1, name |-> FsA, not_deleted |-> TRUE],
      [id |-> 2, name |-> FsB, not_deleted |-> TRUE],
      [id |-> 3, name |-> FsC, not_deleted |-> FALSE] }

\* "h1", "h2", ...: the fqdn of host h.
Fqdn(h) == <<104, 48 + h>>
\* Every host of a cluster has a live host record.
ManagedHosts ==
    { [id |-> h, fqdn |-> Fqdn(h), not_deleted |-> TRUE] : h \in Hosts }

\* snapshot::policy::create::Vars::default()
DefaultVars ==
    [filesystem |-> << >>, keep |-> 0, daily |-> None, weekly |-> None,
     monthly |-> None, barrier |-> None, interval |-> << >>, start |-> None]

\* The snapshot policies of the cache: fsA has one, every two hours from the
\* start of 2020 (interval in seconds); fsB has none.
Policies ==
    { [filesystem |-> FsA, keep |-> 7, daily |-> 1, weekly |-> 2, monthly |-> 3,
       barrier |-> TRUE, start |-> Some([date |-> "2020-01-01", time |-> "00:00"]),
       interval |-> 7200] }

\* Model::default(), the cache read.
DefaultModel ==
    [modal |-> [open |-> FALSE], submitting |-> FALSE, interval |-> 0,
     interval_unit |-> "", start |-> << >>, vars |-> DefaultVars]

\* Tasks 1 and 2, no fid counted yet.
TaskRows == [id \in {1, 2} |-> [fids_total |-> 0]]

\* Commands 1 and 2 ran jobs; command 3 was recorded without any.
CommandRows ==
    { [id |-> 1, cancelled |-> FALSE, complete |-> TRUE, errored |-> FALSE,
       created_at |-> "t1", message |-> "mount"],
      [id |-> 2, cancelled |-> FALSE, complete |-> FALSE, errored |-> FALSE,
       created_at |-> "t2", message |-> "ban"],
      [id |-> 3, cancelled |-> TRUE, complete |-> TRUE, errored |-> TRUE,
       created_at |-> "t3", message |-> "stop"] }
CommandJobRows ==
    { [command_id |-> 1, job_id |-> 11], [command_id |-> 1, job_id |-> 12],
      [command_id |-> 2, job_id |-> 21] }

Init ==
    /\ \E tp \in Topologies : target = tp[1] /\ corosync_resource = tp[2]
    /\ corosync_resource_managed_host = ManagedHostRows(corosync_resource)
    /\ corosync_resource_bans \in BanTables(corosync_resource)
    /\ corosync_node_managed_host = NodeRows
    /\ lnet = LnetRows
    /\ nid = NidRows
    /\ chroma_core_managedfilesystem = FilesystemRows
    /\ chroma_core_managedhost = ManagedHosts
    /\ chroma_core_command = CommandRows
    /\ chroma_core_command_jobs = CommandJobRows
    /\ op = "none"
    /\ args = << >>
    /\ queries = << >>
    /\ target_resources = << >>
    /\ idsets = << >>
    /\ ret = Ok(<< >>)
    /\ failure = 0
    /\ pc = "idle"
    /\ lookups = << >>
    /\ finished = << >>
    /\ joined = << >>
    /\ banned = {}
    /\ stream = << >>
    /\ collected = << >>
    /\ ban_log = << >>
    /\ chroma_core_fidtaskqueue = << >>
    /\ chroma_core_task = TaskRows
    /\ supplied = << >>
    /\ model = DefaultModel
    /\ orders = << >>
    /\ requests = << >>
    /\ last = "none"

-----------------------------------------------------------------------------
(* Errors.                                                                 *)

\* "db error": the text of a failure of the store (a timeout, a lost connection).
StoreErrorText == <<100, 98, 32, 101, 114, 114, 111, 114>>
\* ImlApiError / FieldError made from a sqlx error by `?`.
SqlxError == [kind |-> "sqlx", message |-> StoreErrorText]
\* FieldError::new(message, Value::null()).
FieldError(message) == [kind |-> "field", message |-> message]

-----------------------------------------------------------------------------
(* fs_id_by_name: the id of the live filesystem of that name.              *)

\* format!("Filesystem {} not found", name)
NotFoundMessage(name) ==
    <<70, 105, 108, 101, 115, 121, 115, 116, 101, 109, 32>> \o name
        \o <<32, 110, 111, 116, 32, 102, 111, 117, 110, 100>>

\* Mutant: the SELECT without "and not_deleted = 't'".
fs_id_by_name_AnyRow(name, failed) ==
    LET rows == { f \in chroma_core_managedfilesystem : f.name = name }
    IN  IF failed THEN Err(SqlxError)
        ELSE IF rows = {} THEN Err(FieldError(NotFoundMessage(name)))
        ELSE Ok((CHOOSE f \in rows : TRUE).id)

fs_id_by_name(name, failed) ==
    LET rows == { f \in chroma_core_managedfilesystem : f.name = name /\ f.not_deleted }
    IN  IF failed THEN Err(SqlxError)
        ELSE IF rows = {} THEN Err(FieldError(NotFoundMessage(name)))
        ELSE Ok((CHOOSE f \in rows : TRUE).id)

-----------------------------------------------------------------------------
(* get_banned_targets: the bans, each with the host of its node and the    *)
(* mount point of its resource.                                            *)

\* SQL equality of two nullable columns: never true of a NULL.
SqlEq(a, b) == a # NULL /\ b # NULL /\ a = b

\* Mutant: the join to corosync_resource matches on the cluster only, and the
\* row takes the name of the resource it met.
get_banned_targets_AnyResource ==
    { [resource |-> j[3].name, cluster_id |-> j[1].cluster_id,
       host_id |-> j[2].host_id, mount_point |-> j[3].mount_point] :
        j \in { x \in corosync_resource_bans \X corosync_node_managed_host
                       \X corosync_resource :
                  /\ x[2].name = x[1].node
                  /\ x[2].cluster_id = x[1].cluster_id
                  /\ x[1].cluster_id = x[3].cluster_id
                  /\ x[3].mount_point # NULL } }

get_banned_targets ==
    { [resource |-> j[1].resource, cluster_id |-> j[1].cluster_id,
       host_id |-> j[2].host_id, mount_point |-> j[3].mount_point] :
        j \in { x \in corosync_resource_bans \X corosync_node_managed_host
                       \X corosync_resource :
                  /\ x[2].name = x[1].node
                  /\ x[2].cluster_id = x[1].cluster_id
                  /\ x[3].name = x[1].resource
                  /\ x[1].cluster_id = x[3].cluster_id
                  /\ x[3].mount_point # NULL } }

-----------------------------------------------------------------------------
(* get_fs_target_resources.                                                *)

\* Mutant: the join to the managed hosts forgets rh.host_id = ANY(t.host_ids).
TargetResourceRows_AnyHost ==
    LET J == { x \in target \X corosync_resource \X corosync_resource_managed_host :
                 /\ SqlEq(x[2].mount_point, x[1].mount_path)
                 /\ x[3].corosync_resource_id = x[2].name
                 /\ Cardinality(x[1].filesystems) > 0 }
        Key(x) == [cluster_id |-> x[3].cluster_id, id |-> x[2].name,
                   name |-> x[1].name, mount_path |-> x[1].mount_path,
                   filesystems |-> x[1].filesystems, uuid |-> x[1].uuid,
                   state |-> x[1].state]
    IN  { [cluster_id |-> k.cluster_id, id |-> k.id, name |-> k.name,
           mount_path |-> k.mount_path, filesystems |-> k.filesystems,
           uuid |-> k.uuid, state |-> k.state,
           cluster_hosts |-> { x[3].host_id : x \in { y \in J : Key(y) = k } }] :
            k \in { Key(x) : x \in J } }

\* Mutant: the statement has no WHERE clause, a target of no filesystem joins
\* like any other.
TargetResourceRows_AnyCardinality ==
    LET J == { x \in target \X corosync_resource \X corosync_resource_managed_host :
                 /\ SqlEq(x[2].mount_point, x[1].mount_path)
                 /\ x[3].corosync_resource_id = x[2].name
                 /\ x[3].host_id \in x[1].host_ids }
        Key(x) == [cluster_id |-> x[3].cluster_id, id |-> x[2].name,
                   name |-> x[1].name, mount_path |-> x[1].mount_path,
                   filesystems |-> x[1].filesystems, uuid |-> x[1].uuid,
                   state |-> x[1].state]
    IN  { [cluster_id |-> k.cluster_id, id |-> k.id, name |-> k.name,
           mount_path |-> k.mount_path, filesystems |-> k.filesystems,
           uuid |-> k.uuid, state |-> k.state,
           cluster_hosts |-> { x[3].host_id : x \in { y \in J : Key(y) = k } }] :
            k \in { Key(x) : x \in J } }

\* Mutant: a row carries the host_ids of its target, not the aggregate of the
\* managed hosts.
TargetResourceRows_RawHosts ==
    LET J == { x \in target \X corosync_resource \X corosync_resource_managed_host :
                 /\ SqlEq(x[2].mount_point, x[1].mount_path)
                 /\ x[3].corosync_resource_id = x[2].name
                 /\ x[3].host_id \in x[1].host_ids
                 /\ Cardinality(x[1].filesystems) > 0 }
    IN  { [cluster_id |-> x[3].cluster_id, id |-> x[2].name, name |-> x[1].name,
           mount_path |-> x[1].mount_path, filesystems |-> x[1].filesystems,
           uuid |-> x[1].uuid, state |-> x[1].state,
           cluster_hosts |-> x[1].host_ids] : x \in J }

\* The rows of the SELECT: target joined to the resource of its mount path and
\* to that resource name's managed hosts, grouped.
TargetResourceRows ==
    LET J == { x \in target \X corosync_resource \X corosync_resource_managed_host :
                 /\ SqlEq(x[2].mount_point, x[1].mount_path)
                 /\ x[3].corosync_resource_id = x[2].name
                 /\ x[3].host_id \in x[1].host_ids
                 /\ Cardinality(x[1].filesystems) > 0 }
        Key(x) == [cluster_id |-> x[3].cluster_id, id |-> x[2].name,
                   name |-> x[1].name, mount_path |-> x[1].mount_path,
                   filesystems |-> x[1].filesystems, uuid |-> x[1].uuid,
                   state |-> x[1].state]
    IN  { [cluster_id |-> k.cluster_id, id |-> k.id, name |-> k.name,
           mount_path |-> k.mount_path, filesystems |-> k.filesystems,
           uuid |-> k.uuid, state |-> k.state,
           cluster_hosts |-> { x[3].host_id : x \in { y \in J : Key(y) = k } }] :
            k \in { Key(x) : x \in J } }

\* The statement has no ORDER BY: the store returns the rows in any order.
TargetResourceFetch == Perms(TargetResourceRows)

\* Mutant: the filter also drops a row all of whose hosts are banned.
FsFilter_NonEmpty(fs_name, x) ==
    /\ fs_name = None \/ fs_name[1] \in x.filesystems
    /\ \E h \in x.cluster_hosts :
          \A b \in get_banned_targets :
              ~(/\ b.cluster_id = x.cluster_id /\ b.resource = x.id
                /\ b.mount_point = x.mount_path /\ b.host_id = h)

\* Mutant: the filter lets every row through.
FsFilter_Any(fs_name, x) == fs_name = None \/ fs_name[1] \in x.filesystems \/ TRUE

\* try_filter: the rows of the filesystem asked for.
FsFilter(fs_name, x) == fs_name = None \/ fs_name[1] \in x.filesystems

\* Mutant: the filter forgets the mount point.
BannedHosts_AnyMount(banned_resources, x) ==
    { y.host_id : y \in { b \in banned_resources :
                            /\ b.cluster_id = x.cluster_id
                            /\ b.resource = x.id } }

\* Mutant: the filter bans the host from every resource of the cluster.
BannedHosts_WholeCluster(banned_resources, x) ==
    { y.host_id : y \in { b \in banned_resources : b.cluster_id = x.cluster_id } }

\* The hosts banned from running row x's resource at its mount path.
BannedHosts(banned_resources, x) ==
    { y.host_id : y \in { b \in banned_resources :
                            /\ b.cluster_id = x.cluster_id
                            /\ b.resource = x.id
                            /\ x.mount_path = b.mount_point } }

\* Mutant: a ban on a resource without a mount point is matched by cluster and
\* resource alone.
RetainUnbanned_UnsetMatches(banned_resources, x) ==
    LET unset == { n.host_id :
                     n \in { m \in corosync_node_managed_host :
                               \E b \in corosync_resource_bans :
                                   /\ b.cluster_id = x.cluster_id /\ b.resource = x.id
                                   /\ m.name = b.node /\ m.cluster_id = b.cluster_id
                                   /\ \E r \in corosync_resource :
                                         /\ r.name = b.resource
                                         /\ r.cluster_id = b.cluster_id
                                         /\ r.mount_point = NULL } }
    IN  [x EXCEPT !.cluster_hosts =
            { id \in @ : id \notin BannedHosts(banned_resources, x) \cup unset }]

\* map_ok: retain the hosts that are not banned.
RetainUnbanned(banned_resources, x) ==
    [x EXCEPT !.cluster_hosts = { id \in @ : id \notin BannedHosts(banned_resources, x) }]

\* map_ok: the TargetResource of a row.
ToTargetResource(x) ==
    [cluster_id |-> x.cluster_id, fs_names |-> x.filesystems, uuid |-> x.uuid,
     name |-> x.name, resource_id |-> x.id, state |-> x.state,
     cluster_hosts |-> x.cluster_hosts]

\* failAt: which of the two statements fails (0: none); fetch: the rows as
\* the store returned them.
get_fs_target_resources(fs_name, failAt, fetch) ==
    LET banned_resources == get_banned_targets
        kept == SelectSeq(fetch, LAMBDA x : FsFilter(fs_name, x))
    IN  IF failAt = 1 THEN
            [ret |-> Err(SqlxError), queries |-> <<"get_banned_targets">>]
        ELSE IF failAt = 2 THEN
            [ret |-> Err(SqlxError),
             queries |-> <<"get_banned_targets", "target_resources">>]
        ELSE
            [ret |-> Ok([i \in 1..Len(kept) |->
                           ToTargetResource(RetainUnbanned(banned_resources, kept[i]))]),
             queries |-> <<"get_banned_targets", "target_resources">>]

\* QueryRoot::get_fs_target_resources
QueryRoot_get_fs_target_resources(fs_name, failAt, fetch) ==
    LET found == IF fs_name = None THEN Ok(0) ELSE fs_id_by_name(fs_name[1], failAt = 1)
        before == IF fs_name = None THEN << >> ELSE <<"fs_id_by_name">>
        inner == get_fs_target_resources(
                     fs_name, IF failAt = 0 THEN 0 ELSE failAt - Len(before), fetch)
    IN  /\ op' = "get_fs_target_resources"
        /\ failure' = failAt
        /\ args' = <<fs_name>>
        /\ idsets' = << >>
        /\ IF ~found.ok
           THEN /\ ret' = found
                /\ queries' = before
                /\ target_resources' = << >>
           ELSE /\ ret' = inner.ret
                /\ queries' = before \o inner.queries
                /\ target_resources' = IF inner.ret.ok THEN inner.ret.val ELSE << >>
        /\ UNCHANGED <<elsewhere, store, steps>>

\* The filesystem names a caller may pass: those of the store and an unknown one.
FsNames == {FsA, FsB, FsC, FsZ}

GetFsTargetResources ==
    /\ op = "none"
    /\ \E fs_name \in { Some(fs) : fs \in FsNames } \cup {None} :
        \/ \E fetch \in TargetResourceFetch :
               QueryRoot_get_fs_target_resources(fs_name, 0, fetch)
        \/ \E failAt \in 1..3 :
               /\ failAt <= 2 + (IF fs_name = None THEN 0 ELSE 1)
               /\ QueryRoot_get_fs_target_resources(fs_name, failAt, << >>)

-----------------------------------------------------------------------------
(* get_fs_cluster_hosts.                                                   *)

\* iml_postgres::fqdn_by_host_id: the fqdn of the live host record, an error
\* when the store fails or holds no such record.
fqdn_by_host_id(id, failed) ==
    LET rows == { h \in chroma_core_managedhost : h.id = id /\ h.not_deleted }
    IN  IF failed \/ rows = {} THEN Err(SqlxError)
        ELSE Ok((CHOOSE h \in rows : TRUE).fqdn)

\* Itertools::group_by: the runs of consecutive elements with the same cluster_id.
RECURSIVE GroupByCluster(_)
GroupByCluster(xs) ==
    IF xs = << >> THEN << >>
    ELSE LET rest == GroupByCluster(Tail(xs))
         IN  IF rest # << >> /\ Head(rest)[1].cluster_id = Head(xs).cluster_id
             THEN << <<Head(xs)>> \o Head(rest) >> \o Tail(rest)
             ELSE << <<Head(xs)>> >> \o rest

\* Mutant: the fold keeps the hosts of the first resource of each run only.
IdSets_FirstOnly(xs) ==
    LET groups == GroupByCluster(xs)
    IN  [i \in 1..Len(groups) |-> groups[i][1].cluster_hosts]

\* fold: the HashSet of the cluster_hosts of each run.  A group is kept as a
\* set: the Vec made from the HashSet holds its elements once, in no
\* particular order.
IdSets(xs) ==
    LET groups == GroupByCluster(xs)
    IN  [i \in 1..Len(groups) |->
           UNION { groups[i][k].cluster_hosts : k \in 1..Len(groups[i]) }]

\* Mutant: one failed lookup empties the group.
ResolveGroup_AllOrNone(idset, down) ==
    IF \E y \in idset : ~fqdn_by_host_id(y, y \in down).ok THEN {}
    ELSE { fqdn_by_host_id(x, FALSE).val : x \in idset }

\* join_all + filter_map(ok): the names of the hosts whose lookup succeeded.
\* down: the hosts whose lookup the store fails.
ResolveGroup(idset, down) ==
    { fqdn_by_host_id(x, x \in down).val :
        x \in { y \in idset : fqdn_by_host_id(y, y \in down).ok } }

get_fs_cluster_hosts(fs_name, failAt, fetch, down) ==
    LET inner == get_fs_target_resources(Some(fs_name), failAt, fetch)
        xs == IdSets(inner.ret.val)
    IN  IF ~inner.ret.ok
        THEN [ret |-> inner.ret, queries |-> inner.queries,
              target_resources |-> << >>, idsets |-> << >>]
        ELSE [ret |-> Ok([i \in 1..Len(xs) |-> ResolveGroup(xs[i], down)]),
              queries |-> inner.queries,
              target_resources |-> inner.ret.val, idsets |-> xs]

\* QueryRoot::get_fs_cluster_hosts
QueryRoot_get_fs_cluster_hosts(fs_name, failAt, fetch, down) ==
    LET found == fs_id_by_name(fs_name, failAt = 1)
        inner == get_fs_cluster_hosts(
                     fs_name, IF failAt = 0 THEN 0 ELSE failAt - 1, fetch, down)
    IN  /\ op' = "get_fs_cluster_hosts"
        /\ failure' = failAt
        /\ args' = <<fs_name, down>>
        /\ IF ~found.ok
           THEN /\ ret' = found
                /\ queries' = <<"fs_id_by_name">>
                /\ target_resources' = << >>
                /\ idsets' = << >>
           ELSE /\ ret' = inner.ret
                /\ queries' = <<"fs_id_by_name">> \o inner.queries
                /\ target_resources' = inner.target_resources
                /\ idsets' = inner.idsets
        /\ UNCHANGED <<elsewhere, store, steps>>

\* The lookups that fail in one call: none, or those of one host.
DownSets == { {} } \cup { {h} : h \in Hosts }

GetFsClusterHosts ==
    /\ op = "none"
    /\ \E fs_name \in FsNames :
        \/ \E fetch \in TargetResourceFetch, down \in DownSets :
               QueryRoot_get_fs_cluster_hosts(fs_name, 0, fetch, down)
        \/ \E failAt \in 1..3 :
               QueryRoot_get_fs_cluster_hosts(fs_name, failAt, << >>, {})

-----------------------------------------------------------------------------
(* get_banned_resources.                                                   *)

\* Mutant: the SELECT returns the bans of the resources with a mount point only.
BannedResourceFetch_Placed ==
    Perms({ b \in corosync_resource_bans :
              \E r \in corosync_resource :
                  /\ r.name = b.resource /\ r.cluster_id = b.cluster_id
                  /\ r.mount_point # NULL })

\* SELECT * FROM corosync_resource_bans: every row, in any order.
BannedResourceFetch == Perms(corosync_resource_bans)

get_banned_resources(failed, fetch) ==
    IF failed THEN Err(SqlxError) ELSE Ok(fetch)

\* Mutant: the handler deletes the ban rows it was given.
QueryRoot_get_banned_resources_Consuming(failed, fetch) ==
    /\ op' = "get_banned_resources"
    /\ failure' = IF failed THEN 1 ELSE 0
    /\ args' = << >>
    /\ ret' = get_banned_resources(failed, fetch)
    /\ queries' = <<"banned_resources">>
    /\ target_resources' = << >>
    /\ idsets' = << >>
    /\ corosync_resource_bans' = corosync_resource_bans \ Range(fetch)
    /\ UNCHANGED << target, corosync_resource, corosync_resource_managed_host,
                    corosync_node_managed_host, lnet, nid,
                    chroma_core_managedfilesystem, chroma_core_managedhost,
                    chroma_core_command, chroma_core_command_jobs >>
    /\ UNCHANGED <<elsewhere, steps>>

\* QueryRoot::get_banned_resources
QueryRoot_get_banned_resources(failed, fetch) ==
    /\ op' = "get_banned_resources"
    /\ failure' = IF failed THEN 1 ELSE 0
    /\ args' = << >>
    /\ ret' = get_banned_resources(failed, fetch)
    /\ queries' = <<"banned_resources">>
    /\ target_resources' = << >>
    /\ idsets' = << >>
    /\ UNCHANGED <<elsewhere, store, steps>>

GetBannedResources ==
    /\ op = "none"
    /\ \/ \E fetch \in BannedResourceFetch : QueryRoot_get_banned_resources(FALSE, fetch)
       \/ QueryRoot_get_banned_resources(TRUE, << >>)

-----------------------------------------------------------------------------
(* client_mount_source, client_mount_command.                              *)

\* The NOT IN subquery: the hosts banned from a resource mounted at t's mount path.
MountBannedHosts(t) ==
    { x[2].host_id :
        x \in { y \in corosync_resource_bans \X corosync_node_managed_host
                       \X corosync_resource :
                  /\ y[2].name = y[1].node
                  /\ y[2].cluster_id = y[1].cluster_id
                  /\ y[3].name = y[1].resource
                  /\ y[1].cluster_id = y[3].cluster_id
                  /\ y[3].mount_point # NULL
                  /\ SqlEq(y[3].mount_point, t.mount_path) } }

\* Mutant: the SELECT without its NOT IN clause.
MountSourceRows_NoExclusion(fs_name) ==
    { <<x[2].host_id, x[3].nid>> :
        x \in { y \in target \X lnet \X nid :
                  /\ y[2].host_id \in y[1].host_ids
                  /\ y[3].id \in y[2].nids
                  /\ y[1].name = MGS
                  /\ fs_name \in y[1].filesystems } }

\* The groups (l.host_id, n.nid) of the SELECT.
MountSourceRows(fs_name) ==
    { <<x[2].host_id, x[3].nid>> :
        x \in { y \in target \X lnet \X nid :
                  /\ y[2].host_id \in y[1].host_ids
                  /\ y[3].id \in y[2].nids
                  /\ y[1].name = MGS
                  /\ fs_name \in y[1].filesystems
                  /\ y[3].host_id \notin MountBannedHosts(y[1]) } }

\* ORDER BY l.host_id, n.nid
RowLess(a, b) == a[1] < b[1] \/ (a[1] = b[1] /\ TextLess(a[2], b[2]))

RECURSIVE SortRows(_)
SortRows(S) ==
    IF S = {} THEN << >>
    ELSE LET first == CHOOSE x \in S : \A y \in S \ {x} : RowLess(x, y)
         IN  <<first>> \o SortRows(S \ {first})

\* Mutant: the SELECT without its ORDER BY clause.
MountSourceFetch_Unordered(fs_name) == Perms(MountSourceRows(fs_name))

\* The answers the store can give to the SELECT: its groups, ordered.
MountSourceFetch(fs_name) == { SortRows(MountSourceRows(fs_name)) }

\* Mutant: the separator follows every element, the last one too.
RECURSIVE Join_Trailing(_, _)
Join_Trailing(xs, sep) ==
    IF xs = << >> THEN << >>
    ELSE xs[1] \o sep \o Join_Trailing(Tail(xs), sep)

\* [String]::join
RECURSIVE Join(_, _)
Join(xs, sep) ==
    IF xs = << >> THEN << >>
    ELSE IF Len(xs) = 1 THEN xs[1]
    ELSE xs[1] \o sep \o Join(Tail(xs), sep)

client_mount_source(fs_name, failed, fetch) ==
    LET nids == [i \in 1..Len(fetch) |-> fetch[i][2]]
    IN  IF failed THEN Err(SqlxError)
        ELSE Ok(Join(nids, <<58>>) \o <<58, 47>> \o fs_name)

\* QueryRoot::client_mount_source
QueryRoot_client_mount_source(fs_name, failed, fetch) ==
    /\ op' = "client_mount_source"
    /\ failure' = IF failed THEN 1 ELSE 0
    /\ args' = <<fs_name>>
    /\ ret' = client_mount_source(fs_name, failed, fetch)
    /\ queries' = <<"mount_source">>
    /\ target_resources' = << >>
    /\ idsets' = << >>
    /\ UNCHANGED <<elsewhere, store, steps>>

\* format!("mount -t lustre {} /mnt/{}", x, fs_name)
MountCommand(x, fs_name) ==
    <<109, 111, 117, 110, 116, 32, 45, 116, 32, 108, 117, 115, 116, 114, 101, 32>>
        \o x \o <<32, 47, 109, 110, 116, 47>> \o fs_name

\* QueryRoot::client_mount_command
QueryRoot_client_mount_command(fs_name, failed, fetch) ==
    LET x == client_mount_source(fs_name, failed, fetch)
    IN  /\ op' = "client_mount_command"
        /\ failure' = IF failed THEN 1 ELSE 0
        /\ args' = <<fs_name>>
        /\ ret' = IF x.ok THEN Ok(MountCommand(x.val, fs_name)) ELSE x
        /\ queries' = <<"mount_source">>
        /\ target_resources' = << >>
        /\ idsets' = << >>
        /\ UNCHANGED <<elsewhere, store, steps>>

ClientMountSource ==
    /\ op = "none"
    /\ \E fs_name \in FsNames :
        \/ \E fetch \in MountSourceFetch(fs_name) :
               QueryRoot_client_mount_source(fs_name, FALSE, fetch)
        \/ QueryRoot_client_mount_source(fs_name, TRUE, << >>)

ClientMountCommand ==
    /\ op = "none"
    /\ \E fs_name \in FsNames :
        \/ \E fetch \in MountSourceFetch(fs_name) :
               QueryRoot_client_mount_command(fs_name, FALSE, fetch)
        \/ QueryRoot_client_mount_command(fs_name, TRUE, << >>)

-----------------------------------------------------------------------------
(* targets.                                                                *)

\* ORDER BY t.name in the direction asked for; rows of one name in any order.
InNameOrder(dir, s) ==
    \A i, j \in 1..Len(s) :
        i < j => IF dir = "DESC" THEN ~TextLess(s[i].name, s[j].name)
                 ELSE ~TextLess(s[j].name, s[i].name)

\* Mutant: the statement has no OFFSET and no LIMIT.
Page_Unlimited(s, offset, limit) == s

\* OFFSET $1 LIMIT $2 (LIMIT NULL: every row).
Page(s, offset, limit) ==
    LET from == IF offset >= Len(s) THEN << >> ELSE SubSeq(s, offset + 1, Len(s))
    IN  IF limit = None \/ limit[1] >= Len(from) THEN from
        ELSE SubSeq(from, 1, limit[1])

\* The answers the store can give to the SELECT on target.
TargetsFetch(dir, offset, limit) ==
    { Page(s, offset, limit) : s \in { p \in Perms(target) : InNameOrder(dir, p) } }

\* iter().find(): the first resource of that name.
FindByName(trs, name) ==
    LET at == { i \in 1..Len(trs) : trs[i].name = name }
    IN  IF at = {} THEN None
        ELSE Some(trs[CHOOSE i \in at : \A k \in at : i <= k])

\* Mutant: the resource is looked up by the uuid of the target, not its name.
WithClusterHosts_ByUuid(trs, x) ==
    LET at == { i \in 1..Len(trs) : trs[i].uuid = x.uuid }
    IN  IF at = {} THEN x
        ELSE [x EXCEPT !.host_ids =
                 trs[CHOOSE i \in at : \A k \in at : i <= k].cluster_hosts]

\* map: the target with the cluster hosts of the resource of its name.
WithClusterHosts(trs, x) ==
    LET resource == FindByName(trs, x.name)
    IN  IF resource # None THEN [x EXCEPT !.host_ids = resource[1].cluster_hosts]
        ELSE x

\* QueryRoot::targets.  failAt: which of the statements fails (0: none);
\* rows: the answer of the SELECT on target; fetch: that of the join.
QueryRoot_targets(limit, offset, dir, fs_name, exclude_unmounted, failAt, rows, fetch) ==
    LET found == IF fs_name = None THEN Ok(0) ELSE fs_id_by_name(fs_name[1], failAt = 1)
        before == IF fs_name = None THEN << >> ELSE <<"fs_id_by_name">>
        at == IF failAt = 0 THEN 0 ELSE failAt - Len(before)
        xs == SelectSeq(
                  SelectSeq(rows, LAMBDA x : fs_name = None \/ fs_name[1] \in x.filesystems),
                  LAMBDA x : exclude_unmounted # Some(TRUE) \/ x.state # "unmounted")
        inner == get_fs_target_resources(None, IF at = 0 THEN 0 ELSE at - 1, fetch)
    IN  /\ op' = "targets"
        /\ failure' = failAt
        /\ args' = <<limit, offset, dir, fs_name, exclude_unmounted>>
        /\ idsets' = << >>
        /\ IF ~found.ok
           THEN /\ ret' = found
                /\ queries' = before
                /\ target_resources' = << >>
           ELSE IF at = 1
           THEN /\ ret' = Err(SqlxError)
                /\ queries' = before \o <<"targets">>
                /\ target_resources' = << >>
           ELSE IF ~inner.ret.ok
           THEN /\ ret' = inner.ret
                /\ queries' = before \o <<"targets">> \o inner.queries
                /\ target_resources' = << >>
           ELSE /\ ret' = Ok([i \in 1..Len(xs) |-> WithClusterHosts(inner.ret.val, xs[i])])
                /\ queries' = before \o <<"targets">> \o inner.queries
                /\ target_resources' = inner.ret.val
        /\ UNCHANGED <<elsewhere, store, steps>>

\* SortDir::default(): ascending.
DirOf(dir) == IF dir = None THEN "ASC" ELSE dir[1]
\* offset.unwrap_or(0)
OffsetOf(offset) == IF offset = None THEN 0 ELSE offset[1]

\* The arguments a caller passes to targets:
\* <<limit, offset, dir, fs_name, exclude_unmounted>>.
TargetsInputs ==
    { <<None, None, None, None, None>>,
      <<None, None, Some("DESC"), Some(FsA), Some(TRUE)>>,
      <<Some(1), Some(1), Some("ASC"), None, Some(FALSE)>>,
      <<Some(1), None, None, Some(FsB), None>>,
      <<None, None, None, Some(FsC), None>>,
      <<None, Some(1), None, Some(FsZ), Some(TRUE)>> }

Targets ==
    /\ op = "none"
    /\ \E a \in TargetsInputs :
        \/ \E rows \in TargetsFetch(DirOf(a[3]), OffsetOf(a[2]), a[1]),
              fetch \in TargetResourceFetch :
               QueryRoot_targets(a[1], a[2], a[3], a[4], a[5], 0, rows, fetch)
        \/ \E failAt \in 1..4 :
               /\ failAt <= 3 + (IF a[4] = None THEN 0 ELSE 1)
               /\ QueryRoot_targets(a[1], a[2], a[3], a[4], a[5],
                                    failAt, << >>, << >>)

-----------------------------------------------------------------------------
(* commands_by_ids.                                                        *)

\* limit.unwrap_or(20)
DefaultLimit == 20
LimitOf(limit) == IF limit = None THEN Some(DefaultLimit) ELSE limit

\* The groups of the SELECT: a command among ids joined to its jobs.  A
\* command without a job has no row in the join.
CommandGroups(ids) ==
    { [id |-> c.id, cancelled |-> c.cancelled, complete |-> c.complete,
       errored |-> c.errored, created_at |-> c.created_at,
       job_ids |-> { j.job_id : j \in { y \in chroma_core_command_jobs :
                                          y.command_id = c.id } },
       message |-> c.message] :
        c \in { x \in chroma_core_command :
                  /\ x.id \in Range(ids)
                  /\ \E j \in chroma_core_command_jobs : j.command_id = x.id } }

\* The answers the store can give: a page of the groups, which it returns in
\* any order (the statement has no ORDER BY).
CommandsFetch(ids, offset, limit) ==
    { Page(p, offset, limit) : p \in Perms(CommandGroups(ids)) }

\* to_command: the timestamp formatted, the jobs and the command as URIs.
to_command(x) ==
    [id |-> x.id, cancelled |-> x.cancelled, complete |-> x.complete,
     errored |-> x.errored, created_at |-> <<"%Y-%m-%dT%T%.6f", x.created_at>>,
     jobs |-> { <<"/api/job/", job_id>> : job_id \in x.job_ids },
     logs |-> "", message |-> x.message,
     resource_uri |-> <<"/api/command/", x.id>>]

\* Mutant: the ids without a command are left out of the result.
RECURSIVE RemoveEach_FoundOnly(_, _)
RemoveEach_FoundOnly(ids, hm) ==
    IF ids = << >> THEN << >>
    ELSE LET hit == { c \in hm : c.id = Head(ids) }
         IN  (IF hit = {} THEN << >> ELSE << Some(CHOOSE c \in hit : TRUE) >>)
                 \o RemoveEach_FoundOnly(Tail(ids), hm \ hit)

\* ids.iter().map(|id| hm.remove(id)): each id takes its command out of the map.
RECURSIVE RemoveEach(_, _)
RemoveEach(ids, hm) ==
    IF ids = << >> THEN << >>
    ELSE LET hit == { c \in hm : c.id = Head(ids) }
         IN  << IF hit = {} THEN None ELSE Some(CHOOSE c \in hit : TRUE) >>
                 \o RemoveEach(Tail(ids), hm \ hit)

\* QueryRoot::commands_by_ids
QueryRoot_commands_by_ids(limit, offset, ids, failed, fetch) ==
    LET hm == { to_command(x) : x \in Range(fetch) }
    IN  /\ op' = "commands_by_ids"
        /\ failure' = IF failed THEN 1 ELSE 0
        /\ args' = <<limit, offset, ids>>
        /\ ret' = IF failed THEN Err(SqlxError) ELSE Ok(RemoveEach(ids, hm))
        /\ queries' = <<"commands_by_ids">>
        /\ target_resources' = << >>
        /\ idsets' = << >>
        /\ UNCHANGED <<elsewhere, store, steps>>

\* The arguments a caller passes to commands_by_ids: <<limit, offset, ids>>.
CommandsInputs ==
    { <<None, None, << >> >>,
      <<None, None, <<2, 1>> >>,
      <<None, None, <<1, 4, 2>> >>,
      <<None, None, <<1, 1>> >>,
      <<None, None, <<3>> >>,
      <<Some(1), None, <<1, 2>> >>,
      <<None, Some(1), <<2, 1>> >> }

CommandsByIds ==
    /\ op = "none"
    /\ \E a \in CommandsInputs :
        \/ \E fetch \in CommandsFetch(a[3], OffsetOf(a[2]), LimitOf(a[1])) :
               QueryRoot_commands_by_ids(a[1], a[2], a[3], FALSE, fetch)
        \/ QueryRoot_commands_by_ids(a[1], a[2], a[3], TRUE, << >>)

Next ==
    \/ GetFsTargetResources
    \/ GetFsClusterHosts
    \/ GetBannedResources
    \/ ClientMountSource
    \/ ClientMountCommand
    \/ Targets
    \/ CommandsByIds

Spec == Init /\ [][Next]_vars

-----------------------------------------------------------------------------
(* get_fs_cluster_hosts, step by step: the fqdn_by_host_id futures of every *)
(* group are polled by join_all and complete in any order.                 *)

\* into_iter().collect() of a HashSet: its elements in the order the hasher
\* gives them.
VecOf(idset) == Perms(idset)

\* The futures of one group, as the first poll of its join_all leaves them:
\* one per host id of the Vec, none complete.
Futures(ids) == [i \in 1..Len(ids) |-> [host |-> ids[i], out |-> None]]

\* The vectors the fold can give for the id sets xs.
RECURSIVE IdVecs(_)
IdVecs(xs) ==
    IF xs = << >> THEN { << >> }
    ELSE { <<v>> \o rest : v \in VecOf(Head(xs)), rest \in IdVecs(Tail(xs)) }

\* The handler up to the first poll of the outer join_all: the statements of
\* get_fs_target_resources, the fold, and a pending future per host id.  A
\* failed statement ends the invocation.
IssueLookups ==
    /\ pc = "idle" /\ op = "none"
    /\ \E fs_name \in FsNames, down \in DownSets :
        /\ op' = "get_fs_cluster_hosts"
        /\ args' = <<fs_name, down>>
        /\ \/ \E fetch \in TargetResourceFetch :
                LET found == fs_id_by_name(fs_name, FALSE)
                    inner == get_fs_cluster_hosts(fs_name, 0, fetch, down)
                IN  /\ failure' = 0
                    /\ IF ~found.ok
                       THEN /\ ret' = found
                            /\ queries' = <<"fs_id_by_name">>
                            /\ target_resources' = << >>
                            /\ idsets' = << >>
                            /\ lookups' = << >>
                            /\ pc' = "done"
                       ELSE /\ ret' = ret
                            /\ queries' = <<"fs_id_by_name">> \o inner.queries
                            /\ target_resources' = inner.target_resources
                            /\ idsets' = inner.idsets
                            /\ \E vecs \in IdVecs(inner.idsets) :
                                  lookups' = [g \in 1..Len(vecs) |-> Futures(vecs[g])]
                            /\ pc' = "lookups"
           \/ \E failAt \in 1..3 :
                LET found == fs_id_by_name(fs_name, failAt = 1)
                    inner == get_fs_cluster_hosts(fs_name, failAt - 1, << >>, down)
                IN  /\ failure' = failAt
                    /\ ret' = IF ~found.ok THEN found ELSE inner.ret
                    /\ queries' = IF ~found.ok THEN <<"fs_id_by_name">>
                                  ELSE <<"fs_id_by_name">> \o inner.queries
                    /\ target_resources' = << >>
                    /\ idsets' = << >>
                    /\ lookups' = << >>
                    /\ pc' = "done"
    /\ finished' = [g \in 1..Len(lookups') |-> << >>]
    /\ joined' = [g \in 1..Len(lookups') |-> None]
    /\ UNCHANGED <<elsewhere, store, held>>

\* One pending fqdn_by_host_id future completes, with the name of the host or
\* with an error.
LookupCompletes ==
    /\ pc = "lookups"
    /\ \E g \in 1..Len(lookups) : \E i \in 1..Len(lookups[g]) :
        /\ lookups[g][i].out = None
        /\ lookups' = [lookups EXCEPT ![g][i].out =
                          Some(fqdn_by_host_id(lookups[g][i].host,
                                               lookups[g][i].host \in args[2]))]
        /\ finished' = [finished EXCEPT ![g] = Append(@, i)]
    /\ UNCHANGED <<elsewhere, store, op, args, queries, target_resources, idsets, ret,
                   failure, pc, joined, held>>

\* Mutant: the outputs of a group in the order its futures completed.
JoinedNames_AsCompleted(g) ==
    LET outs == [k \in 1..Len(finished[g]) |-> lookups[g][finished[g][k]].out[1]]
        oks == SelectSeq(outs, LAMBDA x : x.ok)
    IN  [k \in 1..Len(oks) |-> oks[k].val]

\* join_all(fqdns).await.into_iter().filter_map(|x| x.ok()).collect(): the
\* outputs of the futures of group g in the order of the futures, the errors
\* left out.
JoinedNames(g) ==
    LET outs == [i \in 1..Len(lookups[g]) |-> lookups[g][i].out[1]]
        oks == SelectSeq(outs, LAMBDA x : x.ok)
    IN  [k \in 1..Len(oks) |-> oks[k].val]

\* The join_all of one group is ready once every one of its futures is.
JoinGroup ==
    /\ pc = "lookups"
    /\ \E g \in 1..Len(lookups) :
        /\ joined[g] = None
        /\ \A i \in 1..Len(lookups[g]) : lookups[g][i].out # None
        /\ joined' = [joined EXCEPT ![g] = Some(JoinedNames(g))]
    /\ UNCHANGED <<elsewhere, store, op, args, queries, target_resources, idsets, ret,
                   failure, pc, lookups, finished, held>>

\* Ok(join_all(xs).await): ready once every group is; the groups in the order
\* of the id sets.
JoinGroups ==
    /\ pc = "lookups"
    /\ \A g \in 1..Len(joined) : joined[g] # None
    /\ ret' = Ok([g \in 1..Len(joined) |-> joined[g][1]])
    /\ pc' = "done"
    /\ UNCHANGED <<elsewhere, store, op, args, queries, target_resources, idsets, failure,
                   join, held>>

\* The stores the step-by-step invocation is run on: no ban, the MGS and the
\* MDT on their pair, any third target, either resource table.
InitJoin ==
    /\ Init
    /\ corosync_resource_bans = {}
    /\ \A t \in target : t.id \in {1, 2} => t.host_ids = HostsOf(1) /\ t.filesystems # {}

NextJoin ==
    \/ IssueLookups
    \/ LookupCompletes
    \/ JoinGroup
    \/ JoinGroups

SpecJoin == InitJoin /\ [][NextJoin]_vars

-----------------------------------------------------------------------------
(* get_fs_target_resources, step by step: the statement that reads the     *)
(* bans, the SELECT, and the rows its stream yields one at a time, while   *)
(* ban commands of other services write corosync_resource_bans.            *)

\* The filesystem names get_fs_target_resources is called with.
SnapshotInputs == {None, Some(FsA), Some(FsB)}

\* let banned_resources = get_banned_targets(pool).await?
ReadBans ==
    /\ pc = "idle" /\ op = "none"
    /\ \E fs_name \in SnapshotInputs, failed \in BOOLEAN :
        /\ op' = "get_fs_target_resources"
        /\ args' = <<fs_name>>
        /\ queries' = <<"get_banned_targets">>
        /\ failure' = IF failed THEN 1 ELSE 0
        /\ ret' = IF failed THEN Err(SqlxError) ELSE ret
        /\ pc' = IF failed THEN "done" ELSE "select"
        /\ banned' = IF failed THEN {} ELSE get_banned_targets
        /\ ban_log' = IF failed THEN << >>
                      ELSE << [at |-> 0, bans |-> get_banned_targets] >>
    /\ UNCHANGED <<elsewhere, store, target_resources, idsets, join, stream, collected>>

\* sqlx::query!(...).fetch(pool): the store runs the SELECT, or fails it.
RunSelect ==
    /\ pc = "select"
    /\ queries' = Append(queries, "target_resources")
    /\ \/ \E fetch \in TargetResourceFetch :
             /\ stream' = fetch
             /\ pc' = "stream"
             /\ UNCHANGED <<ret, failure>>
       \/ /\ ret' = Err(SqlxError)
          /\ failure' = 2
          /\ pc' = "done"
          /\ UNCHANGED stream
    /\ UNCHANGED <<elsewhere, store, op, args, target_resources, idsets, join, banned,
                   collected, ban_log>>

\* Mutant: the bans are read again for every row.
HeldBans_ReadAgain == get_banned_targets

\* The banned_resources the closure of map_ok borrows.
HeldBans == banned

\* The stream yields its next row: try_filter, then the two map_ok.
NextRow ==
    /\ pc = "stream" /\ stream # << >>
    /\ stream' = Tail(stream)
    /\ collected' =
          IF FsFilter(args[1], Head(stream))
          THEN Append(collected, ToTargetResource(RetainUnbanned(HeldBans, Head(stream))))
          ELSE collected
    /\ UNCHANGED <<elsewhere, store, op, args, queries, target_resources, idsets, ret,
                   failure, pc, join, banned, ban_log>>

\* try_collect().await?; Ok(xs)
Collect ==
    /\ pc = "stream" /\ stream = << >>
    /\ ret' = Ok(collected)
    /\ target_resources' = collected
    /\ pc' = "done"
    /\ UNCHANGED <<elsewhere, store, op, args, queries, idsets, failure, join, held>>

\* A ban command of an administrator places or clears one ban while the
\* invocation runs; at most MaxBans of them do.
BanCommand ==
    /\ pc \in {"select", "stream"}
    /\ Len(ban_log) <= MaxBans
    /\ \E b \in BanUniverse(corosync_resource) :
        /\ corosync_resource_bans' =
              IF b \in corosync_resource_bans THEN corosync_resource_bans \ {b}
              ELSE corosync_resource_bans \cup {b}
        /\ Cardinality(corosync_resource_bans') <= MaxBans
    /\ UNCHANGED <<target, corosync_resource, corosync_resource_managed_host,
                   corosync_node_managed_host, lnet, nid,
                   chroma_core_managedfilesystem, chroma_core_managedhost,
                   chroma_core_command, chroma_core_command_jobs,
                   op, args, queries, target_resources, idsets, ret, failure,
                   pc, join, banned, stream, collected, elsewhere>>
    /\ ban_log' = Append(ban_log, [at |-> Len(collected), bans |-> get_banned_targets'])

\* The stores the step-by-step invocation is run on: those of InitJoin in
\* which the resource of cluster 2 has a name of its own.
InitSnapshot ==
    /\ InitJoin
    /\ \A r \in corosync_resource : r.cluster_id = 2 => r.name = "res_ost"

NextSnapshot ==
    \/ ReadBans
    \/ RunSelect
    \/ NextRow
    \/ Collect
    \/ BanCommand

SpecSnapshot == InitSnapshot /\ [][NextSnapshot]_vars

-----------------------------------------------------------------------------
(* insert_fidlist.                                                         *)

\* A fid string, as the text between its brackets cut at the colons, "0x"
\* taken off: "[0x1:0x2a:0x0]" is <<"1", "2a", "0">>, each a list of code points.
\* The value of a hex digit, -1 for any other character.
HexDigit(c) ==
    IF c \in 48..57 THEN c - 48
    ELSE IF c \in 97..102 THEN c - 87
    ELSE -1

\* from_str_radix(s, 16)
RECURSIVE HexValue(_)
HexValue(s) ==
    IF s = << >> THEN 0
    ELSE 16 * HexValue(SubSeq(s, 1, Len(s) - 1)) + HexDigit(s[Len(s)])

\* LustreFid::from_str: the fid of three hex numbers, an error for anything else.
LustreFid_from_str(s) ==
    IF /\ Len(s) = 3
       /\ \A f \in 1..3 : s[f] # << >> /\ \A k \in 1..Len(s[f]) : HexDigit(s[f][k]) >= 0
    THEN Ok([seq |-> HexValue(s[1]), oid |-> HexValue(s[2]), ver |-> HexValue(s[3])])
    ELSE Err("ParseIntError")

\* "[0x1:0x2a:0x0]", "[0x10:0xb:0x0]", "[0x1:0xzz:0x0]" and "fid".
FidStrings ==
    { << <<49>>, <<50, 97>>, <<48>> >>,
      << <<49, 48>>, <<98>>, <<48>> >>,
      << <<49>>, <<122, 122>>, <<48>> >>,
      << <<102, 105, 100>> >> }

\* One call supplies at most MaxFids strings; MaxCalls calls are made.
MaxFids == 2
MaxCalls == 2
FidLists == UNION { [1..n -> FidStrings] : n \in 0..MaxFids }

\* map(from_str).filter_map(Result::ok): the fids that parsed, in order.
ParsedFids(fids) ==
    LET oks == SelectSeq([i \in 1..Len(fids) |-> LustreFid_from_str(fids[i])],
                         LAMBDA r : r.ok)
    IN  [i \in 1..Len(oks) |-> oks[i].val]

\* insert_fidlist.  failAt: which of its two statements the store fails
\* (0: none).  Each statement is executed on the pool by itself: the rows of
\* the INSERT stay when the UPDATE fails.
insert_fidlist(fids, task_id, failAt) ==
    LET x == ParsedFids(fids)
        rows == [i \in 1..Len(x) |-> [fid |-> x[i], task_id |-> task_id]]
    IN  /\ op' = "insert_fidlist"
        /\ args' = <<fids, task_id>>
        /\ failure' = failAt
        /\ supplied' = Append(supplied, <<task_id, fids, failAt>>)
        /\ IF failAt = 1
           THEN /\ ret' = Err(SqlxError)
                /\ queries' = <<"insert_fidtaskqueue">>
                /\ UNCHANGED <<chroma_core_fidtaskqueue, chroma_core_task>>
           ELSE IF failAt = 2
           THEN /\ ret' = Err(SqlxError)
                /\ queries' = <<"insert_fidtaskqueue", "update_task">>
                /\ chroma_core_fidtaskqueue' = chroma_core_fidtaskqueue \o rows
                /\ UNCHANGED chroma_core_task
           ELSE /\ ret' = Ok(<< >>)
                /\ queries' = <<"insert_fidtaskqueue", "update_task">>
                /\ chroma_core_fidtaskqueue' = chroma_core_fidtaskqueue \o rows
                /\ chroma_core_task' =
                      [chroma_core_task EXCEPT ![task_id].fids_total = @ + Len(fids)]
        /\ UNCHANGED <<store, target_resources, idsets, steps, model, orders,
                       requests, last>>

InsertFidlist ==
    /\ Len(supplied) < MaxCalls
    /\ \E fids \in FidLists, task_id \in DOMAIN chroma_core_task, failAt \in 0..2 :
          insert_fidlist(fids, task_id, failAt)

\* The tables the handlers read play no part: the stores of InitJoin.
InitFid == InitJoin

NextFid == InsertFidlist

SpecFid == InitFid /\ [][NextFid]_vars

-----------------------------------------------------------------------------
(* The create-policy form: update.  Each handler gives the new Model, the   *)
(* messages it queued with orders.send_msg and the requests it performed.  *)

Handled(m, send, cmd) == [model |-> m, send |-> send, cmd |-> cmd]

\* Msg::Input
OnInput(x, m) ==
    CASE x.type = "Interval" -> Handled([m EXCEPT !.interval = x.val], << >>, << >>)
      [] x.type = "IntervalUnit" -> Handled([m EXCEPT !.interval_unit = x.val], << >>, << >>)
      [] x.type = "Start" -> Handled([m EXCEPT !.start = x.val], << >>, << >>)
      [] x.type = "Filesystem" ->
            LET found == { p \in Policies : p.filesystem = x.val }
                p == CHOOSE q \in found : TRUE
            IN  IF found # {}
                THEN Handled(
                         [m EXCEPT !.vars.keep = p.keep,
                                   !.vars.daily = Some(p.daily),
                                   !.vars.weekly = Some(p.weekly),
                                   !.vars.monthly = Some(p.monthly),
                                   !.vars.barrier = Some(p.barrier),
                                   !.start = IF p.start = None THEN << >>
                                             ELSE <<p.start[1].date, "T", p.start[1].time>>,
                                   !.interval = p.interval \div 60,
                                   !.interval_unit = "m",
                                   !.vars.filesystem = x.val], << >>, << >>)
                ELSE Handled(
                         [m EXCEPT !.vars = [DefaultVars EXCEPT !.keep = 32,
                                                                !.filesystem = x.val],
                                   !.interval = 60,
                                   !.interval_unit = "m",
                                   !.start = << >>], << >>, << >>)
      [] x.type = "ToggleBarrier" ->
            Handled([m EXCEPT !.vars.barrier =
                        Some(~(IF @ = None THEN FALSE ELSE @[1]))], << >>, << >>)
      [] x.type = "Keep" -> Handled([m EXCEPT !.vars.keep = x.val], << >>, << >>)
      [] x.type = "Daily" -> Handled([m EXCEPT !.vars.daily = x.val], << >>, << >>)
      [] x.type = "Weekly" -> Handled([m EXCEPT !.vars.weekly = x.val], << >>, << >>)
      [] x.type = "Monthly" -> Handled([m EXCEPT !.vars.monthly = x.val], << >>, << >>)

\* Mutant: a Submit that arrives while a request is awaited is dropped.
OnSubmit_OnceAtATime(m) ==
    IF m.submitting THEN Handled(m, << >>, << >>)
    ELSE LET sent == [m.vars EXCEPT
                         !.interval = <<m.interval, m.interval_unit>>,
                         !.start = IF m.start = << >> THEN None
                                   ELSE Some(m.start \o <<":00Z">>)]
         IN  Handled([m EXCEPT !.submitting = TRUE, !.vars = sent], << >>, <<sent>>)

\* Msg::Submit: the interval and the start are formatted into vars, and one
\* request is performed with a copy of vars.
OnSubmit(m) ==
    LET sent == [m.vars EXCEPT
                    !.interval = <<m.interval, m.interval_unit>>,
                    !.start = IF m.start = << >> THEN None
                              ELSE Some(m.start \o <<":00Z">>)]
    IN  Handled([m EXCEPT !.submitting = TRUE, !.vars = sent], << >>, <<sent>>)

\* Msg::CreatePolicyResp: whatever the response, it is only logged.
OnCreatePolicyResp(x, m) ==
    Handled([m EXCEPT !.submitting = FALSE], <<"Close">>, << >>)

\* Msg::Open and Msg::Close
OnOpen(m) == Handled([m EXCEPT !.modal.open = TRUE], << >>, << >>)
OnClose(m) == Handled([m EXCEPT !.modal.open = FALSE], << >>, << >>)

\* Msg::Modal: modal::update closes the modal (its close button, the Esc key).
OnModal(m) == Handled([m EXCEPT !.modal.open = FALSE], << >>, << >>)

\* The state after update handled a message of kind msg with outcome r.
\* Messages queued with send_msg are handled before any other.
Update(msg, r, queue, inflight) ==
    /\ model' = r.model
    /\ orders' = queue \o r.send
    /\ requests' = inflight \o r.cmd
    /\ last' = msg
    /\ UNCHANGED <<store, op, args, queries, target_resources, idsets, ret,
                   failure, steps, fidlist>>

\* What the user can enter in the fields of the form.
Inputs ==
    << [type |-> "Filesystem", val |-> FsA], [type |-> "Filesystem", val |-> FsB],
       [type |-> "ToggleBarrier"], [type |-> "Keep", val |-> 5] >>

\* At most MaxRequests create requests await their response.
MaxRequests == 2

Input ==
    /\ orders = << >>
    /\ \E k \in 1..Len(Inputs) :
          Update("Input", OnInput(Inputs[k], model), orders, requests)

Submit ==
    /\ orders = << >>
    /\ Len(requests) < MaxRequests
    /\ Update("Submit", OnSubmit(model), orders, requests)

\* The fetch of one request ends: with data, with GraphQL errors, or in error.
CreatePolicyResp ==
    /\ orders = << >>
    /\ \E i \in 1..Len(requests), x \in {"Data", "Errors", "Err"} :
          Update("CreatePolicyResp", OnCreatePolicyResp(x, model), orders,
                 SubSeq(requests, 1, i - 1) \o SubSeq(requests, i + 1, Len(requests)))

Open ==
    /\ orders = << >>
    /\ Update("Open", OnOpen(model), orders, requests)

\* Msg::Close, queued by update or sent by the Cancel button.
Close ==
    /\ IF orders = << >> THEN TRUE ELSE Head(orders) = "Close"
    /\ Update("Close", OnClose(model), IF orders = << >> THEN orders ELSE Tail(orders),
              requests)

Modal ==
    /\ orders = << >>
    /\ Update("Modal", OnModal(model), orders, requests)

Noop ==
    /\ orders = << >>
    /\ Update("Noop", Handled(model, << >>, << >>), orders, requests)

\* The tables of the API play no part: the form is run over one store.
InitForm ==
    /\ InitJoin
    /\ \A t \in target : t.id = 3 => t.name = OST0 /\ t.mount_path = "/ost"
    /\ \A r \in corosync_resource : r.cluster_id = 2 => r.name = "res_ost"

NextForm ==
    \/ Input
    \/ Submit
    \/ CreatePolicyResp
    \/ Open
    \/ Close
    \/ Modal
    \/ Noop

SpecForm == InitForm /\ [][NextForm]_vars

-----------------------------------------------------------------------------
(* What the claims speak of, stated on the tables.                         *)

\* A placement ban: (cluster, resource, banned host, mount point of the resource).
PlacementBan ==
    { [cluster_id |-> x[1].cluster_id, resource |-> x[1].resource,
       host_id |-> x[2].host_id, mount_point |-> x[3].mount_point] :
        x \in { y \in corosync_resource_bans \X corosync_node_managed_host
                       \X corosync_resource :
                  /\ y[2].name = y[1].node /\ y[2].cluster_id = y[1].cluster_id
                  /\ y[3].name = y[1].resource /\ y[3].cluster_id = y[1].cluster_id
                  /\ y[3].mount_point # NULL } }

\* The hosts of cluster c that can run resource rid.
ResourceHosts(c, rid) ==
    { m.host_id : m \in { y \in corosync_resource_managed_host :
                            y.cluster_id = c /\ y.corosync_resource_id = rid } }

\* The storage target a TargetResource was built from.
BackingTarget(x) == CHOOSE t \in target : t.uuid = x.uuid

\* The raw candidates of a TargetResource.
Candidates(x) ==
    ResourceHosts(x.cluster_id, x.resource_id) \cap BackingTarget(x).host_ids

\* The bans on a TargetResource: same cluster, resource and mount path.
BansOn(x) ==
    { b \in PlacementBan :
        /\ b.cluster_id = x.cluster_id
        /\ b.resource = x.resource_id
        /\ b.mount_point = BackingTarget(x).mount_path }

\* Every host id a table holds.
AllHostIds == Hosts \cup { MaxHost + 1 }

\* The TargetResources the last call got from get_fs_target_resources.
Returned == Range(target_resources)

\* C1: the eligible hosts of every TargetResource returned by
\* get_fs_target_resources are among the raw host_ids of its storage target.
C1_EligibleWithinRaw ==
    \A x \in Returned : x.cluster_hosts \subseteq BackingTarget(x).host_ids

\* A filtered listing returned a resource whose eligible hosts are some, not
\* all, of its target's raw hosts.
C1_Witness ==
    /\ op = "get_fs_target_resources"
    /\ args = <<Some(FsA)>>
    /\ \E x \in Returned :
          /\ x.cluster_hosts # {}
          /\ x.cluster_hosts # BackingTarget(x).host_ids

\* C2: a host is eligible for a returned TargetResource exactly if it can run
\* the resource in its cluster, is a raw host of the target, and no ban on
\* (cluster, resource, mount path) names it; without bans the eligible set is
\* the intersection of the resource's hosts and the target's hosts.
C2_EligibleIff ==
    \A x \in Returned :
        /\ \A h \in AllHostIds :
              h \in x.cluster_hosts
                  <=> /\ h \in ResourceHosts(x.cluster_id, x.resource_id)
                      /\ h \in BackingTarget(x).host_ids
                      /\ \A b \in BansOn(x) : b.host_id # h
        /\ corosync_resource_bans = {} => x.cluster_hosts = Candidates(x)

\* A returned resource has one candidate banned and another still eligible.
C2_Witness ==
    /\ op = "get_fs_target_resources"
    /\ \E x \in Returned :
          /\ \E b \in BansOn(x) : b.host_id \in Candidates(x)
          /\ x.cluster_hosts # {}

\* C3: a ban removes its host from the resource it is placed on, and from no
\* other resource: a candidate missing from a resource's eligible set is named
\* by a ban on that very resource.
C3_BanIsLocal ==
    \A x \in Returned :
        /\ \A b \in BansOn(x) : b.host_id \notin x.cluster_hosts
        /\ \A b \in PlacementBan \ BansOn(x) :
              /\ b.host_id \in Candidates(x)
              /\ \A c \in BansOn(x) : c.host_id # b.host_id
              => b.host_id \in x.cluster_hosts

\* A host banned from one returned resource is still eligible for another.
C3_Witness ==
    /\ op = "get_fs_target_resources"
    /\ \E x, y \in Returned :
          \E b \in BansOn(x) :
              /\ b \notin BansOn(y)
              /\ b.host_id \in Candidates(x)
              /\ b.host_id \in y.cluster_hosts

\* C4: the host-id groups of get_fs_cluster_hosts are pairwise disjoint, in
\* whatever order the store returns the rows.
C4_GroupsDisjoint ==
    op = "get_fs_cluster_hosts" /\ ret.ok
        => \A i, j \in DOMAIN idsets : i # j => idsets[i] \cap idsets[j] = {}

\* C5: get_fs_cluster_hosts emits one group per cluster among the filesystem's
\* TargetResources, and the group is the union of the eligible hosts of the
\* TargetResources of that cluster, in whatever order they arrive.
C5_OneGroupPerCluster ==
    op = "get_fs_cluster_hosts" /\ ret.ok
        => LET cs == { x.cluster_id : x \in Returned }
           IN  /\ Len(idsets) = Cardinality(cs)
               /\ \A c \in cs :
                     \E i \in DOMAIN idsets :
                         idsets[i] = UNION { x.cluster_hosts :
                                               x \in { y \in Returned : y.cluster_id = c } }

\* The hosts eligible for some resource of filesystem fs, from the tables: for
\* each target of fs, each resource mounted at its path and each cluster, the
\* resource's hosts among the target's, less those banned there.
EligibleOfFs(fs) ==
    UNION { (ResourceHosts(x[3], x[2].name) \cap x[1].host_ids)
                \ { b.host_id : b \in { y \in PlacementBan :
                                          /\ y.cluster_id = x[3]
                                          /\ y.resource = x[2].name
                                          /\ y.mount_point = x[1].mount_path } } :
            x \in { z \in target \X corosync_resource \X Clusters :
                      /\ fs \in z[1].filesystems
                      /\ z[2].mount_point # NULL
                      /\ z[2].mount_point = z[1].mount_path } }

\* The names of the live record of host h.
NamesOf(h) ==
    { m.fqdn : m \in { y \in chroma_core_managedhost : y.id = h /\ y.not_deleted } }

\* C6: when every lookup resolves, the union of the groups of
\* get_fs_cluster_hosts(fs) is the set of the hosts eligible for the resources
\* of fs: none is missing, none is added.
C6_UnionIsEligible ==
    /\ op = "get_fs_cluster_hosts"
    /\ ret.ok
    /\ args[2] = {}
    /\ \A h \in EligibleOfFs(args[1]) : NamesOf(h) # {}
    => UNION Range(ret.val) = UNION { NamesOf(h) : h \in EligibleOfFs(args[1]) }

\* Two clusters serve the filesystem, a candidate of one of its resources is
\* banned, and every lookup resolved.
C6_Witness ==
    /\ op = "get_fs_cluster_hosts"
    /\ ret.ok
    /\ args[2] = {}
    /\ Cardinality({ x.cluster_id : x \in Returned }) = 2
    /\ \E x \in Returned : \E b \in BansOn(x) : b.host_id \in Candidates(x)
    /\ UNION Range(ret.val) # {}

\* The pieces of s between the occurrences of c.
RECURSIVE Split(_, _)
Split(s, c) ==
    IF \A i \in 1..Len(s) : s[i] # c THEN <<s>>
    ELSE LET i == CHOOSE k \in 1..Len(s) : s[k] = c /\ \A m \in 1..(k - 1) : s[m] # c
         IN  <<SubSeq(s, 1, i - 1)>> \o Split(SubSeq(s, i + 1, Len(s)), c)

\* The network identifiers of the mount source src of fs: what stands before
\* the final ":/fs", cut at the colons.
NidList(src, fs) ==
    LET body == SubSeq(src, 1, Len(src) - Len(fs) - 2)
    IN  IF body = << >> THEN << >> ELSE Split(body, 58)

\* The management targets of fs, the hosts banned from the resource mounted at
\* the path of one of them, the network identifiers of a host.
MgsTargetsOf(fs) == { t \in target : t.name = MGS /\ fs \in t.filesystems }
BannedFromMgs(t) ==
    { b.host_id : b \in { y \in PlacementBan : y.mount_point = t.mount_path } }
NidsOfHost(h) == { n.nid : n \in { y \in nid : y.host_id = h } }

\* C7: the mount source of fs holds no network identifier of a host banned
\* from the management resource of fs.  Every identifier in it is one of a host
\* of a management target of fs that is not banned at that target's mount path;
\* hence, fs having its one management target, no identifier of a host banned
\* at the path of that target is in it.
C7_NoBannedNid ==
    op = "client_mount_source" /\ ret.ok
        => LET fs == args[1]
               ps == Range(NidList(ret.val, fs))
           IN  /\ \A p \in ps :
                     \E t \in MgsTargetsOf(fs) :
                         \E h \in t.host_ids \ BannedFromMgs(t) : p \in NidsOfHost(h)
               /\ \A t \in MgsTargetsOf(fs) :
                     MgsTargetsOf(fs) = {t}
                         => \A h \in BannedFromMgs(t) : ps \cap NidsOfHost(h) = {}

\* The one management target of fsA has a host banned from its resource and a
\* host that is not; the source names the latter.
C7_Witness ==
    /\ op = "client_mount_source"
    /\ ret.ok
    /\ args[1] = FsA
    /\ \E t \in MgsTargetsOf(FsA) :
          /\ MgsTargetsOf(FsA) = {t}
          /\ t.host_ids \cap BannedFromMgs(t) # {}
          /\ t.host_ids \ BannedFromMgs(t) # {}
    /\ NidList(ret.val, FsA) # << >>

\* The (host, network identifier) pairs that survive the exclusion.
Surviving(fs) ==
    UNION { { <<h, n>> : n \in NidsOfHost(h) } :
            h \in UNION { t.host_ids \ BannedFromMgs(t) : t \in MgsTargetsOf(fs) } }

\* (host identifier, network identifier) order.
PairLess(a, b) == a[1] < b[1] \/ (a[1] = b[1] /\ TextLess(a[2], b[2]))

\* The pairs of S in ascending order: the i-th has i - 1 pairs below it.
Ascending(S) ==
    [i \in 1..Cardinality(S) |->
        CHOOSE x \in S : Cardinality({ y \in S : PairLess(y, x) }) = i - 1]

\* C8: the network identifiers of the mount source are those of the surviving
\* pairs in ascending (host identifier, network identifier) order; the source
\* is therefore a function of the tables, the same at every call.
C8_AscendingDeterministic ==
    op = "client_mount_source" /\ ret.ok
        => LET asc == Ascending(Surviving(args[1]))
           IN  /\ NidList(ret.val, args[1]) = [i \in 1..Len(asc) |-> asc[i][2]]
               /\ ret.val = Join([i \in 1..Len(asc) |-> asc[i][2]], <<58>>)
                                \o <<58, 47>> \o args[1]

\* Host 1 contributes "10" before "2", host 2 then "3".
C8_Witness ==
    /\ op = "client_mount_source"
    /\ ret.ok
    /\ Len(NidList(ret.val, args[1])) >= 3
    /\ SubSeq(NidList(ret.val, args[1]), 1, 3) = <<Nid10, Nid2, Nid3>>

\* C9: client_mount_source and client_mount_command fail for a filesystem name
\* the store does not hold, and return no source or command for it.
C9_UnknownFsFails ==
    /\ op \in {"client_mount_source", "client_mount_command"}
    /\ \A f \in chroma_core_managedfilesystem : f.name # args[1]
    => ~ret.ok

\* The filesystem name a listing operation was given, if any.
GivenFs ==
    CASE op = "targets" -> args[4]
      [] op = "get_fs_target_resources" -> args[1]
      [] op = "get_fs_cluster_hosts" -> Some(args[1])
      [] OTHER -> None

\* C10: targets, get_fs_target_resources and get_fs_cluster_hosts, given a name
\* that is not that of a live filesystem, issue the filesystem lookup and no
\* other statement, and fail; unless the lookup itself failed, the error is the
\* not-found error, whose message contains the name.
C10_NotFoundBeforeJoins ==
    /\ GivenFs # None
    /\ \A f \in chroma_core_managedfilesystem : f.name = GivenFs[1] => ~f.not_deleted
    => /\ queries = <<"fs_id_by_name">>
       /\ ~ret.ok
       /\ ret.err.kind # "sqlx"
             => /\ ret.err = FieldError(NotFoundMessage(GivenFs[1]))
                /\ Contains(ret.err.message, GivenFs[1])

\* targets asked for the deleted filesystem fsC, the store answering.
C10_Witness ==
    /\ op = "targets"
    /\ GivenFs = Some(FsC)
    /\ ~ret.ok
    /\ ret.err.kind = "field"

\* The identifiers the store resolves for fs, in the order it returns them.
ResolvedNids(fs) ==
    LET asc == Ascending(Surviving(fs))
    IN  [i \in 1..Len(asc) |-> asc[i][2]]

\* n[1] ":" n[2] ":" ... ":" n[k] ":/" fs, built from the left.
SourceText(n, fs) ==
    LET F[i \in 0..Len(n)] ==
            IF i = 0 THEN << >>
            ELSE IF i = 1 THEN n[1]
            ELSE F[i - 1] \o <<58>> \o n[i]
    IN  F[Len(n)] \o <<58, 47>> \o fs

\* "mount -t lustre ", " /mnt/", and the texts of the scenario.
MountPrefixText == <<109, 111, 117, 110, 116, 32, 45, 116, 32, 108, 117, 115, 116, 114, 101, 32>>
MountDirText == <<32, 47, 109, 110, 116, 47>>
ScenarioNid1 == <<49, 48, 46, 48, 46, 48, 46, 49, 64, 116, 99, 112>>
ScenarioNid2 == <<49, 48, 46, 48, 46, 48, 46, 50, 64, 116, 99, 112>>
ScenarioCommand ==
    <<109, 111, 117, 110, 116, 32, 45, 116, 32, 108, 117, 115, 116, 114,
       101, 32, 49, 48, 46, 48, 46, 48, 46, 49, 64, 116, 99, 112, 58, 49, 48,
       46, 48, 46, 48, 46, 50, 64, 116, 99, 112, 58, 47, 102, 115, 65, 32,
       47, 109, 110, 116, 47, 102, 115, 65>>

\* C11: the mount source of fs is the resolved identifiers joined with ':',
\* then ":/" and fs; the mount command is "mount -t lustre ", the mount source,
\* " /mnt/" and fs.  The identifiers 10.0.0.1@tcp, 10.0.0.2@tcp and fsA give
\* "mount -t lustre 10.0.0.1@tcp:10.0.0.2@tcp:/fsA /mnt/fsA".
C11_SourceAndCommandFormat ==
    /\ op = "client_mount_source" /\ ret.ok
          => ret.val = SourceText(ResolvedNids(args[1]), args[1])
    /\ op = "client_mount_command" /\ ret.ok
          => ret.val = MountPrefixText \o SourceText(ResolvedNids(args[1]), args[1])
                           \o MountDirText \o args[1]
    /\ op = "client_mount_command"
          => MountCommand(
                 client_mount_source(FsA, FALSE,
                     << <<1, ScenarioNid1>>, <<2, ScenarioNid2>> >>).val, FsA)
               = ScenarioCommand

\* The command for a filesystem with three identifiers resolved.
C11_Witness ==
    /\ op = "client_mount_command"
    /\ ret.ok
    /\ Len(ResolvedNids(args[1])) = 3
    /\ ret.val = MountPrefixText \o Nid10 \o <<58>> \o Nid2 \o <<58>> \o Nid3
                     \o <<58, 47>> \o args[1] \o MountDirText \o args[1]

\* The operations of the resolver.
ResolverOps ==
    { "get_fs_target_resources", "get_fs_cluster_hosts", "get_banned_resources",
      "client_mount_source", "client_mount_command" }

\* The host-name lookups of the last get_fs_cluster_hosts that the store failed.
FailedLookups == args[2] \cap UNION Range(idsets)

\* C12: a failure of the store or of a host-name lookup aborts the operation,
\* the error being its sole result: no resolver operation succeeds when a
\* statement failed, and get_fs_cluster_hosts returns no groups when one of
\* its host-name lookups failed.
C12_FailureAborts ==
    /\ op \in ResolverOps /\ failure # 0 => ~ret.ok
    /\ op = "get_fs_cluster_hosts" /\ FailedLookups # {} => ~ret.ok

\* A filesystem name with a live row in the store.
LiveFs(name) ==
    \E f \in chroma_core_managedfilesystem : f.name = name /\ f.not_deleted

\* C13: get_fs_cluster_hosts drops a host without a resolvable name from its
\* group and does nothing else: the call succeeds, there is one group of names
\* per group of host ids, and each holds the names of all its other hosts.
C13_UnresolvedHostDropped ==
    op = "get_fs_cluster_hosts" /\ failure = 0 /\ LiveFs(args[1])
        => /\ ret.ok
           /\ Len(ret.val) = Len(idsets)
           /\ \A i \in DOMAIN idsets :
                 ret.val[i] = UNION { NamesOf(h) : h \in idsets[i] \ args[2] }

\* A group holds host 2 and the departed host, which has no host record; no
\* lookup is failed by the store; the group is reported with host 2, and so is
\* another group.
C13_Witness ==
    /\ op = "get_fs_cluster_hosts"
    /\ ret.ok
    /\ args[2] = {}
    /\ Len(ret.val) >= 2
    /\ \E i \in DOMAIN idsets :
          /\ {2, MaxHost + 1} \subseteq idsets[i]
          /\ NamesOf(MaxHost + 1) = {}
          /\ Fqdn(2) \in ret.val[i]
          /\ Cardinality(ret.val[i]) = Cardinality(idsets[i]) - 1

\* The (target, resource, cluster) triples with a candidate host, of the
\* filesystem asked for (fs = None: of any filesystem).  Bans play no part.
ResourceKeys(fs) ==
    { <<x[1].uuid, x[2].name, x[3]>> :
        x \in { z \in target \X corosync_resource \X Clusters :
                  /\ z[1].filesystems # {}
                  /\ fs = None \/ fs[1] \in z[1].filesystems
                  /\ z[2].mount_point # NULL
                  /\ z[2].mount_point = z[1].mount_path
                  /\ ResourceHosts(z[3], z[2].name) \cap z[1].host_ids # {} } }

\* C14: get_fs_target_resources returns one TargetResource per (target,
\* resource, cluster) with a candidate host, whatever the bans: one whose every
\* candidate is banned is returned with no eligible host, and bans do not
\* change the number of TargetResources.
C14_EmptyStillReturned ==
    op = "get_fs_target_resources" /\ ret.ok
        => /\ Len(ret.val) = Cardinality(ResourceKeys(args[1]))
           /\ { <<x.uuid, x.resource_id, x.cluster_id>> : x \in Range(ret.val) }
                 = ResourceKeys(args[1])
           /\ \A x \in Range(ret.val) :
                 Candidates(x) \subseteq { b.host_id : b \in BansOn(x) }
                     => x.cluster_hosts = {}

\* Both hosts of the MGS resource are banned from it; it is returned, with no host.
C14_Witness ==
    /\ op = "get_fs_target_resources"
    /\ ret.ok
    /\ \E x \in Range(ret.val) :
          /\ Cardinality(Candidates(x)) = 2
          /\ Candidates(x) \subseteq { b.host_id : b \in BansOn(x) }
          /\ x.cluster_hosts = {}

\* A ban on a (cluster, resource) pair that no cluster resource matches.
Dangling(b) ==
    \A r \in corosync_resource : ~(r.name = b.resource /\ r.cluster_id = b.cluster_id)

\* The hosts that the ban rows B keep from running resource rid of cluster c
\* at mount path mp.
BannedBy(B, c, rid, mp) ==
    { n.host_id :
        n \in { m \in corosync_node_managed_host :
                  \E b \in B :
                      /\ b.cluster_id = c /\ b.resource = rid
                      /\ m.name = b.node /\ m.cluster_id = c
                      /\ \E r \in corosync_resource :
                            /\ r.name = rid /\ r.cluster_id = c
                            /\ r.mount_point # NULL /\ r.mount_point = mp } }

\* What get_fs_target_resources(fs) is to return were B the ban rows.
ExpectedResources(B, fs) ==
    { [uuid |-> k[1], resource_id |-> k[2], cluster_id |-> k[3],
       cluster_hosts |->
           LET t == CHOOSE y \in target : y.uuid = k[1]
           IN  (ResourceHosts(k[3], k[2]) \cap t.host_ids)
                   \ BannedBy(B, k[3], k[2], t.mount_path)] :
        k \in ResourceKeys(fs) }

\* C15: a ban on a (cluster, resource) pair without a cluster resource is
\* ignored by get_fs_target_resources: the call does not fail for it, and
\* returns what it returns when that ban is not in the store.
C15_DanglingBanIgnored ==
    op = "get_fs_target_resources"
        => /\ failure = 0 /\ (args[1] = None \/ LiveFs(args[1][1])) => ret.ok
           /\ ret.ok
                 => /\ { [uuid |-> x.uuid, resource_id |-> x.resource_id,
                          cluster_id |-> x.cluster_id,
                          cluster_hosts |-> x.cluster_hosts] : x \in Range(ret.val) }
                         = ExpectedResources(corosync_resource_bans, args[1])
                    /\ Len(ret.val)
                         = Cardinality(ExpectedResources(corosync_resource_bans, args[1]))
                    /\ \A d \in { b \in corosync_resource_bans : Dangling(b) } :
                          ExpectedResources(corosync_resource_bans \ {d}, args[1])
                              = ExpectedResources(corosync_resource_bans, args[1])

\* The store holds a dangling ban on the node of host 1 and a ban in effect; a
\* resource host 1 is a candidate of is returned with host 1.
C15_Witness ==
    /\ op = "get_fs_target_resources"
    /\ ret.ok
    /\ \E d \in corosync_resource_bans :
          /\ Dangling(d)
          /\ d.node = NodeName(1)
          /\ \E x \in Range(ret.val) :
                1 \in Candidates(x) /\ 1 \in x.cluster_hosts /\ x.cluster_id = d.cluster_id
    /\ \E x \in Range(ret.val) : x.cluster_hosts # Candidates(x)

\* C16: listing the target resources, the cluster host groups or the banned
\* resources, and composing the mount source or command, leave the stored
\* topology and the stored bans as they were, on success and on error.
C16_ReadOnly ==
    [][op' \in ResolverOps => store' = store]_vars

\* A resolver operation failed on a store that holds targets and bans.
C16_Witness ==
    /\ op \in ResolverOps
    /\ corosync_resource_bans # {}
    /\ target # {}
    /\ ~ret.ok
    /\ failure # 0

\* What targets lists, unpaged, for filesystem fs (None: any) without the
\* exclusion of the unmounted targets.
Listed(fs) ==
    { WithClusterHosts(target_resources, t) :
        t \in { y \in target : fs = None \/ fs[1] \in y.filesystems } }

\* The entries get_fs_target_resources(None) returns, in whatever order the
\* store hands it the rows.
Unfiltered ==
    { ToTargetResource(RetainUnbanned(get_banned_targets, x)) : x \in TargetResourceRows }

\* C17: the optional filters select exactly the matching entries.
\* get_fs_target_resources(Some(fs)) returns the entries of
\* get_fs_target_resources(None) whose filesystems hold fs, and no other;
\* targets with exclude_unmounted = true, unpaged, returns the targets of the
\* listing that are not "unmounted", and with false or none it removes none.
C17_FiltersSelectExactly ==
    /\ op = "get_fs_target_resources" /\ ret.ok /\ args[1] = None
          => Range(ret.val) = Unfiltered
    /\ op = "get_fs_target_resources" /\ ret.ok /\ args[1] # None
          => LET matching == { x \in Unfiltered : args[1][1] \in x.fs_names }
             IN  /\ Range(ret.val) = matching
                 /\ Len(ret.val) = Cardinality(matching)
    /\ op = "targets" /\ ret.ok
          => LET unpaged == args[1] = None /\ args[2] = None
                 mounted == { x \in Listed(args[4]) : x.state # "unmounted" }
             IN  /\ unpaged /\ args[5] = Some(TRUE)
                       => /\ Range(ret.val) = mounted
                          /\ Len(ret.val) = Cardinality(mounted)
                 /\ unpaged /\ args[5] # Some(TRUE)
                       => /\ Range(ret.val) = Listed(args[4])
                          /\ Len(ret.val) = Cardinality(Listed(args[4]))
                 /\ ~unpaged /\ args[5] # Some(TRUE) /\ args[4] = None
                       => LET rest == Cardinality(target) - OffsetOf(args[2])
                          IN  Len(ret.val) =
                                 IF args[1] # None /\ args[1][1] < rest
                                 THEN args[1][1] ELSE rest

\* The resources of fsB were asked for; some resource of the store is not one.
C17_Witness ==
    /\ op = "get_fs_target_resources"
    /\ ret.ok
    /\ args[1] = Some(FsB)
    /\ Len(ret.val) >= 1
    /\ Len(ret.val) < Cardinality(ResourceKeys(None))

\* The command of the store with that id, as the interface presents it.
StoredCommands(id) ==
    { [id |-> c.id, cancelled |-> c.cancelled, complete |-> c.complete,
       errored |-> c.errored, created_at |-> <<"%Y-%m-%dT%T%.6f", c.created_at>>,
       jobs |-> { <<"/api/job/", j.job_id>> :
                    j \in { y \in chroma_core_command_jobs : y.command_id = c.id } },
       logs |-> "", message |-> c.message,
       resource_uri |-> <<"/api/command/", c.id>>] :
        c \in { x \in chroma_core_command : x.id = id } }

\* C18: commands_by_ids returns as many entries as it was given ids, the
\* empty list included, and the entry at an index is None or the command whose
\* id is the id given at that index.
C18_SameLengthAndIndex ==
    op = "commands_by_ids" /\ ret.ok
        => /\ Len(ret.val) = Len(args[3])
           /\ \A i \in 1..Len(ret.val) :
                 \/ ret.val[i] = None
                 \/ /\ ret.val[i][1].id = args[3][i]
                    /\ ret.val[i][1] \in StoredCommands(args[3][i])

\* Three ids were given, the second without a command: the first and third
\* entries are commands, the second is None.
C18_Witness ==
    /\ op = "commands_by_ids"
    /\ ret.ok
    /\ args[3] = <<1, 4, 2>>
    /\ Len(ret.val) = 3
    /\ ret.val[1] # None /\ ret.val[2] = None /\ ret.val[3] # None

\* C19: an entry of commands_by_ids is None only if the store holds no command
\* with the id given at its index, for lists longer than the paging limit and
\* for lists that repeat an id too.
C19_NoneOnlyIfAbsent ==
    op = "commands_by_ids" /\ ret.ok
        => \A i \in 1..Len(ret.val) :
              ret.val[i] = None => StoredCommands(args[3][i]) = {}

\* C20: get_banned_resources returns the ban rows of the store, every one and
\* each as it is stored, those of a missing resource and of a resource without
\* a mount point too; with no ban row it returns the empty list, not an error.
C20_BanSnapshot ==
    op = "get_banned_resources" /\ failure = 0
        => /\ ret.ok
           /\ Range(ret.val) = corosync_resource_bans
           /\ Len(ret.val) = Cardinality(corosync_resource_bans)
           /\ corosync_resource_bans = {} => ret.val = << >>

\* The store holds a ban on a missing resource and one on a resource without
\* a mount point; both are returned.
C20_Witness ==
    /\ op = "get_banned_resources"
    /\ ret.ok
    /\ \E d \in Range(ret.val) : Dangling(d)
    /\ \E b \in Range(ret.val) :
          \E r \in corosync_resource :
              r.name = b.resource /\ r.cluster_id = b.cluster_id /\ r.mount_point = NULL

\* The bans with the host of their node and the mount point of their resource,
\* which may be unset.
RawBan ==
    { [cluster_id |-> x[1].cluster_id, resource |-> x[1].resource,
       host_id |-> x[2].host_id, mount_point |-> x[3].mount_point] :
        x \in { y \in corosync_resource_bans \X corosync_node_managed_host
                       \X corosync_resource :
                  /\ y[2].name = y[1].node /\ y[2].cluster_id = y[1].cluster_id
                  /\ y[3].name = y[1].resource /\ y[3].cluster_id = y[1].cluster_id } }

\* The bans on the cluster and resource id of a TargetResource.
RawBansOn(x) ==
    { b \in RawBan : b.cluster_id = x.cluster_id /\ b.resource = x.resource_id }

\* C21 as stated: a ban whose mount point is unset matches by (cluster id,
\* resource id) alone and removes its host from the eligible set of the
\* resource with that cluster and resource id; a ban whose mount point is set
\* removes its host only when the mount point is the target's mount path.
C21_UnsetMountMatchesAlone ==
    op = "get_fs_target_resources" /\ ret.ok
        => \A x \in Range(ret.val) :
              \A b \in RawBansOn(x) :
                  /\ b.mount_point = NULL => b.host_id \notin x.cluster_hosts
                  /\ b.mount_point # NULL /\ b.host_id \in Candidates(x)
                        /\ b.host_id \notin x.cluster_hosts
                        => \E c \in RawBansOn(x) :
                              /\ c.host_id = b.host_id
                              /\ c.mount_point = BackingTarget(x).mount_path

\* C21, amended: a ban whose mount point is unset removes no host; a candidate
\* host is removed from the eligible set of a TargetResource exactly when a ban
\* on its cluster and resource id names the host and has a mount point that is
\* set and is the target's mount path.
C21_UnsetMountNeverMatches ==
    op = "get_fs_target_resources" /\ ret.ok
        => \A x \in Range(ret.val) :
              \A h \in Candidates(x) :
                  h \notin x.cluster_hosts
                      <=> \E b \in RawBansOn(x) :
                              /\ b.host_id = h
                              /\ b.mount_point # NULL
                              /\ b.mount_point = BackingTarget(x).mount_path

\* A ban without a mount point is on the cluster and resource id of a returned
\* TargetResource and names a candidate host of it; the host is still eligible.
C21_Witness ==
    /\ op = "get_fs_target_resources"
    /\ ret.ok
    /\ \E x \in Range(ret.val) :
          \E b \in RawBansOn(x) :
              /\ b.mount_point = NULL
              /\ b.host_id \in Candidates(x)
              /\ b.host_id \in x.cluster_hosts

\* A host that no cluster lists as a node.
NoMembership(h) == \A n \in corosync_node_managed_host : n.host_id # h

\* C22 as stated: a raw host of a target that has no cluster membership
\* record is kept in the eligible set of the target's TargetResources.
C22_UnknownHostPreserved ==
    op = "get_fs_target_resources" /\ ret.ok
        => \A x \in Range(ret.val) :
              \A h \in BackingTarget(x).host_ids :
                  NoMembership(h) => h \in x.cluster_hosts

\* C22, amended: a raw host without a cluster membership record makes no call
\* fail; it is in the eligible set of a TargetResource exactly when the
\* resource's managed hosts list it, and is left out otherwise.
C22_UnknownHostKeptIfManaged ==
    op = "get_fs_target_resources"
        => /\ failure = 0 /\ (args[1] = None \/ LiveFs(args[1][1])) => ret.ok
           /\ ret.ok
                 => \A x \in Range(ret.val) :
                       \A h \in BackingTarget(x).host_ids :
                           NoMembership(h)
                               => (h \in x.cluster_hosts
                                     <=> h \in ResourceHosts(x.cluster_id, x.resource_id))

\* The departed host is a raw host of two returned TargetResources: it is
\* eligible for the one whose resource lists it, and not for the other.
C22_Witness ==
    /\ op = "get_fs_target_resources"
    /\ ret.ok
    /\ NoMembership(MaxHost + 1)
    /\ \E x \in Range(ret.val) :
          MaxHost + 1 \in BackingTarget(x).host_ids /\ MaxHost + 1 \in x.cluster_hosts
    /\ \E x \in Range(ret.val) :
          MaxHost + 1 \in BackingTarget(x).host_ids /\ MaxHost + 1 \notin x.cluster_hosts

\* C23: get_fs_target_resources(None) returns one TargetResource per cluster
\* resource: no two entries have the same (cluster id, resource id), two
\* targets with the same mount path in the store or not.
C23_OnePerClusterResource ==
    op = "get_fs_target_resources" /\ ret.ok /\ args[1] = None
        => \A i, j \in 1..Len(ret.val) :
              i # j => <<ret.val[i].cluster_id, ret.val[i].resource_id>>
                         # <<ret.val[j].cluster_id, ret.val[j].resource_id>>

\* The targets of the store that belong to no filesystem.
Detached == { t \in target : t.filesystems = {} }

\* C24: a target with zero filesystems never yields a TargetResource, a
\* cluster resource sharing its mount path and hosts or not: every entry
\* get_fs_target_resources returns has a non-empty fs_names and is the entry of
\* no such target.
C24_DetachedTargetExcluded ==
    op = "get_fs_target_resources" /\ ret.ok
        => \A i \in 1..Len(ret.val) :
              /\ ret.val[i].fs_names # {}
              /\ \A t \in Detached : t.uuid # ret.val[i].uuid

\* The unfiltered call returned entries from a store holding a target of no
\* filesystem whose mount path a resource mounts on one of the target's hosts.
C24_Witness ==
    /\ op = "get_fs_target_resources" /\ ret.ok /\ args[1] = None
    /\ Len(ret.val) > 0
    /\ \E t \in Detached : \E r \in corosync_resource :
          /\ r.mount_point = t.mount_path
          /\ \E rh \in corosync_resource_managed_host :
                rh.corosync_resource_id = r.name /\ rh.host_id \in t.host_ids

\* The places of the entries named as x in the TargetResource list targets got.
SameNamed(x) == { k \in 1..Len(target_resources) : target_resources[k].name = x.name }

\* C27: every target that targets returns is a stored target whose host_ids
\* are the cluster_hosts of the first TargetResource of its name, whatever the
\* uuid of that entry, or its stored host_ids when no entry has its name; its
\* other fields are the stored ones.
C27_HostIdsOfFirstSameNamed ==
    op = "targets" /\ ret.ok
        => \A i \in 1..Len(ret.val) :
              \E t \in target :
                 /\ t.uuid = ret.val[i].uuid
                 /\ ret.val[i] =
                       [t EXCEPT !.host_ids =
                           IF SameNamed(t) = {} THEN t.host_ids
                           ELSE target_resources[
                                    CHOOSE k \in SameNamed(t) :
                                        \A m \in SameNamed(t) : k <= m].cluster_hosts]

\* targets returned a target whose host_ids were overwritten, with hosts other
\* than the stored ones, from the entry of another target of the same name.
C27_Witness ==
    /\ op = "targets" /\ ret.ok
    /\ \E i \in 1..Len(ret.val) : \E t \in target :
          /\ t.uuid = ret.val[i].uuid
          /\ ret.val[i].host_ids # t.host_ids
          /\ SameNamed(t) # {}
          /\ target_resources[CHOOSE k \in SameNamed(t) :
                                  \A m \in SameNamed(t) : k <= m].uuid # t.uuid
          /\ \E k \in SameNamed(t) :
                /\ target_resources[k].uuid = t.uuid
                /\ target_resources[k].cluster_hosts # ret.val[i].host_ids

\* Whether target t passes the filters of the last targets call.
PassesFilters(t) ==
    /\ args[4] = None \/ args[4][1] \in t.filesystems
    /\ args[5] # Some(TRUE) \/ t.state # "unmounted"

\* The places of list s that the offset and the limit of the last targets
\* call select.
Window(s) ==
    { p \in 1..Len(s) :
        /\ p > OffsetOf(args[2])
        /\ args[1] = None \/ p <= OffsetOf(args[2]) + args[1][1] }

\* C28: targets applies offset and limit to the name-ordered list of all the
\* targets, and the filters to that page: with limit L it returns at most L
\* targets, and for some name-ordered list of the stored targets the returned
\* ones are those at the places offset+1..offset+L of it that pass the filters.
C28_PageBeforeFilters ==
    op = "targets" /\ ret.ok
        => /\ args[1] # None => Len(ret.val) <= args[1][1]
           /\ \E s \in { p \in Perms(target) : InNameOrder(DirOf(args[3]), p) } :
                 /\ \A i \in 1..Len(ret.val) :
                       \E p \in Window(s) : s[p].uuid = ret.val[i].uuid
                 /\ { ret.val[i].uuid : i \in 1..Len(ret.val) }
                       = { s[p].uuid : p \in { q \in Window(s) : PassesFilters(s[q]) } }

\* targets, asked for one target of a filesystem, returned none while more
\* than one stored target passes the filters: the first target by name does not.
C28_Witness ==
    /\ op = "targets" /\ ret.ok
    /\ args[1] # None /\ args[4] # None
    /\ Len(ret.val) < args[1][1]
    /\ Cardinality({ t \in target : PassesFilters(t) }) > args[1][1]

\* The names group g of the running get_fs_cluster_hosts must report: those of
\* the hosts of its Vec whose lookup the store answers, in the order of the Vec.
NamesInVecOrder(g) ==
    LET hs == SelectSeq([i \in 1..Len(lookups[g]) |-> lookups[g][i].host],
                        LAMBDA h : fqdn_by_host_id(h, h \in args[2]).ok)
    IN  [k \in 1..Len(hs) |-> fqdn_by_host_id(hs[k], FALSE).val]

\* C25: in get_fs_cluster_hosts a group is emitted only once every one of its
\* lookups has completed, with a name or with an error that drops the host;
\* the result is returned only once every group is emitted; and each group of
\* the result lists its hosts in the order the lookups were issued in,
\* whatever the order they completed in.
C25_GroupsJoinedInIssueOrder ==
    /\ \A g \in 1..Len(joined) :
          joined[g] # None => \A i \in 1..Len(lookups[g]) : lookups[g][i].out # None
    /\ pc = "done" /\ ret.ok
          => /\ Len(ret.val) = Len(idsets)
             /\ \A g \in 1..Len(joined) :
                   /\ joined[g] # None
                   /\ Len(finished[g]) = Len(lookups[g])
                   /\ ret.val[g] = NamesInVecOrder(g)

\* The call returned a group of two names whose second lookup completed
\* before its first, both having been pending together, after the store had
\* failed a lookup of another group.
C25_Witness ==
    /\ pc = "done" /\ ret.ok
    /\ \E g, k \in 1..Len(ret.val) :
          /\ Len(ret.val[g]) = 2
          /\ finished[g] = <<2, 1>>
          /\ ret.val[g][1] = fqdn_by_host_id(lookups[g][1].host, FALSE).val
          /\ k # g /\ lookups[k] # << >> /\ ret.val[k] = << >>

\* The TargetResources the rows of the store give against the ban set B.
AgainstBans(B) == { ToTargetResource(RetainUnbanned(B, x)) : x \in TargetResourceRows }

QueuedFor(id) ==
    { i \in 1..Len(chroma_core_fidtaskqueue) : chroma_core_fidtaskqueue[i].task_id = id }

\* Whether every fid string supplied for task id, in the calls that wrote to
\* the store, parsed.
AllParsed(id) ==
    \A c \in 1..Len(supplied) :
        supplied[c][1] = id /\ supplied[c][3] # 1
            => \A k \in 1..Len(supplied[c][2]) : LustreFid_from_str(supplied[c][2][k]).ok

\* C29: after any sequence of insert_fidlist calls the fids_total of a task is
\* greater than or equal to the number of rows queued for it, and equal only if
\* every fid string supplied for it parsed.
C29_TotalCoversQueued ==
    \A id \in DOMAIN chroma_core_task :
        /\ chroma_core_task[id].fids_total >= Cardinality(QueuedFor(id))
        /\ chroma_core_task[id].fids_total = Cardinality(QueuedFor(id)) => AllParsed(id)

\* The selected filesystem and the keep, daily, weekly, monthly and barrier
\* fields of the form.
PolicyFields(m) ==
    <<m.vars.filesystem, m.vars.keep, m.vars.daily, m.vars.weekly, m.vars.monthly,
      m.vars.barrier>>

\* C30: in the create-policy form every Submit sets submitting and performs
\* one create request, submitting already set or not; every CreatePolicyResp,
\* whatever the response, clears submitting and queues Close; the queued Close
\* is handled before any other message and leaves the modal closed; and
\* neither Submit nor CreatePolicyResp changes the selected filesystem or the
\* keep, daily, weekly, monthly and barrier fields.
C30_SubmitAndResponse ==
    [][/\ last' = "Submit"
            => /\ model'.submitting
               /\ Len(requests') = Len(requests) + 1
               /\ PolicyFields(model') = PolicyFields(model)
       /\ last' = "CreatePolicyResp"
            => /\ ~model'.submitting
               /\ orders' = Append(orders, "Close")
               /\ Len(requests') = Len(requests) - 1
               /\ PolicyFields(model') = PolicyFields(model)
       /\ orders # << >>
            => /\ last' = Head(orders)
               /\ orders' = Tail(orders)
               /\ Head(orders) = "Close" => ~model'.modal.open]_vars

\* The Close a response queued was handled: the modal is closed and submitting
\* is clear while a request still awaits its response, so a Submit was handled
\* while submitting was set; the fields hold what the user entered.
C30_Witness ==
    /\ last = "Close" /\ orders = << >>
    /\ ~model.modal.open /\ ~model.submitting
    /\ Len(requests) >= 1
    /\ model.vars.filesystem = FsA /\ model.vars.keep = 5
    /\ model.vars.barrier = Some(FALSE)

====
